---------------------------- MODULE Spec2Model ----------------------------
(***************************************************************************)
(* The CSR arbitrage pipeline.                                             *)
(*   Spec              execution engine (executionEngine.ts): validation   *)
(*                     gate, idempotent order state machine, risk limits   *)
(*   SpecValidate      validateExecution as a function of its inputs       *)
(*   SpecLedger        Paper Ledger (paperLedger.ts)                       *)
(*   SpecConsumer      consumer loop of a bus stream (strategy and         *)
(*                     uniswap-quote index.ts); SpecConsumerFair adds      *)
(*                     fairness                                            *)
(*   SpecDecision      StrategyEngine.calculateDecision as a function      *)
(*   SpecStrategy      StrategyEngine: updates and evaluateMarket          *)
(*   SpecArbitrage     strategy service: onMarketTick, evaluateArbitrage   *)
(*   SpecBook          strategy service: the order book under ticks of two *)
(*                     symbols in any order of their timestamps            *)
(*   SpecFeed          market.data: the LBank and Uniswap producers and    *)
(*                     the strategy consumer                               *)
(*   SpecSolver        alignment solver (alignmentSolver.ts) as functions  *)
(*                     of their inputs and of the clock                    *)
(*   SpecSuggestion    computeSuggestion as a function of its inputs       *)
(*   SpecFill          paper fill: execute and executePaper's simulation   *)
(*   SpecBoot          configuration: loadConfig, validateLiveMode         *)
(*   SpecShared        several engine instances on one trade store         *)
(* Each component has its own variables, which stay as they start in the   *)
(* specifications of the others.                                           *)
(*                                                                         *)
(* Amounts are small naturals (one unit of size_usdt, one unit of          *)
(* edge_bps); the code only compares and adds them.  uuidv4() is modelled  *)
(* as a fresh value: trade ids and decision-record ids are the next unused *)
(* index of their table, generated idempotency keys are the negative       *)
(* numbers -1, -2, ... (caller-supplied keys are the positive ones).       *)
(* All trades fall in one day, so the daily volume is the volume of the    *)
(* store.  A TradeRecord keeps the fields the engine reads (ts, symbol,    *)
(* direction and edge_bps are written once and never read).                *)
(***************************************************************************)
EXTENDS Integers, Sequences, FiniteSets, TLC

(* ------------------------------ bounds --------------------------------- *)
MaxSize == 3          \* sizes range over 1..MaxSize
MaxEdge == 1          \* edges range over 0..MaxEdge
MaxKeys == 2          \* caller-supplied idempotency keys 1..MaxKeys
MaxCalls == 2         \* entry-point calls (evaluateAndExecute, execute) in a behaviour
MaxActive == 2        \* active-order counts 0..MaxActive fed to validateExecution
MaxDecisionIds == 2   \* decision ids 1..MaxDecisionIds given to the Paper Ledger
MaxRows == 3          \* recordTrade is closed once the ledger holds this many rows
MaxStream == 3        \* entries published to the stream
MaxFailures == 2      \* bus calls that fail before the bus has recovered
MaxTicks == 3         \* prices 200..200+MaxTicks (units of 0.0001 USDT), besides 123 and 128
MaxGas == 6           \* quote.gas_cost_usdt 0..MaxGas (units of 0.0001 USDT)
MaxTime == 2          \* the clock runs over 0..MaxTime
MaxLadder == 2        \* a quote ladder holds up to MaxLadder entries, of sizes 100, 200, ... USDT
MaxDeviation == 8     \* deviations given to classifyBand: multiples of 0.25% up to MaxDeviation
MaxTickTs == 1        \* ticks of the order-book specification carry ts 0..MaxTickTs
MaxFeed == 3          \* entries published to the market.data stream
MaxInstances == 2     \* engine instances built on one shared trade store

\* COUNT of the XREADGROUP call
ReadCount == 10

DefaultMaxConcurrentOrders == 1

Sizes == 1..MaxSize
Edges == 0..MaxEdge
Keys == 1..MaxKeys
Modes == {"off", "paper", "live"}

Min(a, b) == IF a < b THEN a ELSE b

(* --------------------------- configuration ----------------------------- *)
\* The loaded Config: every mode and kill switch, an order limit just below the
\* largest size, a daily limit of the largest size, the largest edge as the
\* threshold.  LBANK_API_KEY / LBANK_API_SECRET say whether the credential is
\* set; only executeLive reads them, so they vary in live mode only.
Configs ==
    { c \in [ EXECUTION_MODE : Modes,
              KILL_SWITCH : BOOLEAN,
              MAX_ORDER_USDT : {MaxSize - 1},
              MAX_DAILY_VOLUME_USDT : {MaxSize},
              MIN_EDGE_BPS : {MaxEdge},
              MAX_CONCURRENT_ORDERS : {DefaultMaxConcurrentOrders},
              LBANK_API_KEY : BOOLEAN,
              LBANK_API_SECRET : BOOLEAN ] :
        c.EXECUTION_MODE # "live" => (~c.LBANK_API_KEY /\ ~c.LBANK_API_SECRET) }

VARIABLES
    config,           \* ExecutionEngine.config
    trades,           \* Database: table of TradeRecord, in insertion order
    decisionRecords,  \* Database: table of DecisionRecord, in insertion order
    activeOrders,     \* ExecutionEngine.activeOrders (the trade ids it holds)
    pc,               \* position of the engine: "idle", "execute", "dispatch"
    req,              \* ExecuteParams of the execute() call the last entry-point call made, if any
    cur,              \* id of the trade execute() is dispatching
    result,           \* ExecuteResult returned by the last entry-point call, if any
    uuids,            \* number of idempotency keys evaluateAndExecute generated
    msgs,             \* bus: number of distinct StrategyDecision messages delivered
    calls,            \* history: number of entry-point calls made
    origin,           \* history: message id each trade was created for (0: direct call)
    evalCalls,        \* history: number of evaluateAndExecute calls made
    arg,              \* history: the decision passed to the last evaluateAndExecute
    vin,              \* input of the validateExecution check
    vout,             \* output of the validateExecution check
    ledger,           \* PaperLedger: rows of table paper_trades, in insertion order
    lres,             \* result of the last PaperLedger call
    stream,           \* bus: the stream a consumer group reads (payload kind of each entry)
    lastDelivered,    \* bus: last id the group delivered to a consumer
    pel,              \* bus: ids delivered to the consumer and not acknowledged
    batch,            \* consumer: ids of the read batch still to go through, current first
    handled,          \* consumer: ids whose handler was called
    cpc,              \* consumer: position in the loop
    fails,            \* bus: number of calls that failed so far
    clog,             \* consumer: last event logged
    din,              \* calculateDecision: the config, ticker and quote it is given
    dout,             \* calculateDecision: the StrategyDecision it returned
    now,              \* the clock (Date.now())
    orderBook,        \* strategy service: orderBook[symbol][venue], a MarketState
    aout,             \* strategy service: what the last evaluateArbitrage did
    state,            \* StrategyEngine.state of one market
    sout,             \* StrategyEngine: what the last evaluateMarket did
    solverIn,         \* alignment solver: the function called and its arguments
    solverOut,        \* alignment solver: what the call returned
    fillIn,           \* paper fill: the request, the entry point and Math.random()
    fillOut,          \* paper fill: what executePaper logged and returned
    env,              \* execution service: process.env
    boot,             \* execution service: position of the startup, loaded config, validation
    store,            \* shared trade store: its table of TradeRecord
    engines,          \* engine instances on the shared store: position, request, result
    feed,             \* market.data stream: the entries published, oldest first
    consumed,         \* market.data stream: entries the strategy consumer has gone through
    accepted          \* market.data stream: indices of the entries given to onMarketTick

vars == << config, trades, decisionRecords, activeOrders, pc, req, cur, result,
           uuids, msgs, calls, origin, evalCalls, arg, vin, vout,
           ledger, lres,
           stream, lastDelivered, pel, batch, handled, cpc, fails, clog,
           din, dout, now, orderBook, aout, state, sout,
           solverIn, solverOut, fillIn, fillOut, env, boot, store, engines,
           feed, consumed, accepted >>

engineVars == << config, trades, decisionRecords, activeOrders, pc, req, cur,
                 result, uuids, msgs, calls, origin, evalCalls, arg >>

\* The variables of the components other than the execution engine
ledgerVars == << ledger, lres >>
consumerVars == << stream, lastDelivered, pel, batch, handled, cpc, fails, clog >>
decisionVars == << din, dout >>
arbitrageVars == << orderBook, aout >>
strategyVars == << state, sout >>
solverVars == << solverIn, solverOut >>
fillVars == << fillIn, fillOut >>
bootVars == << env, boot >>
sharedVars == << store, engines >>
feedVars == << feed, consumed, accepted >>
laterVars == << solverVars, fillVars, bootVars, sharedVars, feedVars >>
extVars == << ledgerVars, consumerVars, decisionVars, now, arbitrageVars, strategyVars,
             laterVars >>
notLedger == << engineVars, vin, vout, consumerVars, decisionVars, now, arbitrageVars,
                strategyVars, laterVars >>
notConsumer == << engineVars, vin, vout, ledgerVars, decisionVars, now, arbitrageVars,
                  strategyVars, laterVars >>
notDecision == << engineVars, vin, vout, ledgerVars, consumerVars, now, arbitrageVars,
                  strategyVars, laterVars >>
notArbitrage == << engineVars, vin, vout, ledgerVars, consumerVars, decisionVars,
                   strategyVars, laterVars >>
notStrategy == << engineVars, vin, vout, ledgerVars, consumerVars, decisionVars,
                  arbitrageVars, laterVars >>
earlierVars == << engineVars, vin, vout, ledgerVars, consumerVars, decisionVars,
                  arbitrageVars, strategyVars >>
notSolver == << earlierVars, fillVars, bootVars, sharedVars, feedVars >>
notFill == << earlierVars, now, solverVars, bootVars, sharedVars, feedVars >>
notBoot == << earlierVars, now, solverVars, fillVars, sharedVars, feedVars >>
notShared == << earlierVars, now, solverVars, fillVars, bootVars, feedVars >>
notFeedNorBook == << engineVars, vin, vout, ledgerVars, consumerVars, decisionVars,
                     strategyVars, now, solverVars, fillVars, bootVars, sharedVars >>

NoReq == [size_usdt |-> 0, edge_bps |-> 0, idempotency_key |-> 0, msg |-> 0]
NoResult == [success |-> FALSE, trade_id |-> 0, status |-> "none", message |-> "none"]

(* ------------------------------ Database ------------------------------- *)
RECURSIVE SumSizes(_)
SumSizes(s) == IF s = << >> THEN 0 ELSE Head(s).size_usdt + SumSizes(Tail(s))

IsFilled(t) == t.status = "filled"

\* Database.getDailyVolume: volume of the trades filled today
getDailyVolume(db) == SumSizes(SelectSeq(db, IsFilled))

\* Database.checkIdempotencyKey: a trade with this key is in the store
checkIdempotencyKey(db, key) == \E i \in 1..Len(db) : db[i].idempotency_key = key

\* Database.insertTrade
insertTrade(db, trade) == Append(db, trade)

\* Database.updateTradeStatus: sets the status of the trade with this id
updateTradeStatus(db, id, status) ==
    [i \in 1..Len(db) |-> IF db[i].id = id THEN [db[i] EXCEPT !.status = status] ELSE db[i]]

\* Database.insertDecision
insertDecision(db, rec) == Append(db, rec)

(* -------------------------- validateExecution -------------------------- *)
\* validateExecution with the concurrent-order gate checked before the daily volume
validateExecution_concurrentFirst(cfg, decision, dailyVolume, activeCount) ==
    IF cfg.KILL_SWITCH
      THEN [valid |-> FALSE, reason |-> "Kill switch is active"]
    ELSE IF cfg.EXECUTION_MODE = "off"
      THEN [valid |-> FALSE, reason |-> "Execution mode is off"]
    ELSE IF decision.edge_after_costs_bps < cfg.MIN_EDGE_BPS
      THEN [valid |-> FALSE, reason |-> "Edge below threshold"]
    ELSE IF activeCount >= cfg.MAX_CONCURRENT_ORDERS
      THEN [valid |-> FALSE, reason |-> "Max concurrent orders reached"]
    ELSE IF dailyVolume + decision.suggested_size_usdt > cfg.MAX_DAILY_VOLUME_USDT
      THEN [valid |-> FALSE, reason |-> "Daily volume limit exceeded"]
    ELSE [valid |-> TRUE, reason |-> "ok"]

validateExecution(cfg, decision, dailyVolume, activeCount) ==
    IF cfg.KILL_SWITCH
      THEN [valid |-> FALSE, reason |-> "Kill switch is active"]
    ELSE IF cfg.EXECUTION_MODE = "off"
      THEN [valid |-> FALSE, reason |-> "Execution mode is off"]
    ELSE IF decision.edge_after_costs_bps < cfg.MIN_EDGE_BPS
      THEN [valid |-> FALSE, reason |-> "Edge below threshold"]
    ELSE IF dailyVolume + decision.suggested_size_usdt > cfg.MAX_DAILY_VOLUME_USDT
      THEN [valid |-> FALSE, reason |-> "Daily volume limit exceeded"]
    ELSE IF activeCount >= cfg.MAX_CONCURRENT_ORDERS
      THEN [valid |-> FALSE, reason |-> "Max concurrent orders reached"]
    ELSE [valid |-> TRUE, reason |-> "ok"]

(* ------------------------- StrategyDecision ---------------------------- *)
\* The fields of a StrategyDecision the engine reads
Decisions ==
    [ would_trade : BOOLEAN, edge_after_costs_bps : Edges, suggested_size_usdt : Sizes ]

NoDecision == [would_trade |-> FALSE, edge_after_costs_bps |-> 0, suggested_size_usdt |-> 0]

NoInput == [decision |-> NoDecision, dailyVolume |-> 0, activeCount |-> 0]
NoValidation == [valid |-> FALSE, reason |-> "none"]

NoLedgerResult == [op |-> "none", decision_id |-> 0, id |-> 0, has |-> FALSE]
NoCalculation == [direction |-> "unset"]
Venues == {"lbank", "latoken", "uniswap_v4"}
BookSymbols == {"CSR/USDT", "CSR25/USDT"}
NoState == [venue |-> "none"]
NoEvaluation == [evaluated |-> FALSE, used |-> FALSE, cex |-> "none", requests |-> << >>,
                 log |-> "none"]
NoTicker == [type |-> "none"]
NoQuote == [effective_price_usdt |-> 0]
NoMarketEvaluation == [reason |-> "none", cex |-> "none", decisions |-> 0]
NoCall == [fn |-> "none"]
NoReturn == [fn |-> "none"]
NoFillRequest == [entry |-> "none"]
NoFill == [entry |-> "none"]
NoEnv == [EXECUTION_MODE |-> << >>, KILL_SWITCH |-> << >>, LBANK_API_KEY |-> << >>,
          LBANK_API_SECRET |-> << >>]
NotStarted == [pc |-> "start"]

\* The inputs of the function specifications, when no call is made
NoCalls ==
    /\ solverIn = NoCall
    /\ fillIn = NoFillRequest
    /\ env = NoEnv

\* The other components before their first operation
ExtInit ==
    /\ ledger = << >>
    /\ lres = NoLedgerResult
    /\ stream = << >>
    /\ lastDelivered = 0
    /\ pel = {}
    /\ batch = << >>
    /\ handled = {}
    /\ cpc = "read"
    /\ fails = 0
    /\ clog = "none"
    /\ dout = NoCalculation
    /\ now = 0
    /\ orderBook = [ s \in BookSymbols |-> [ v \in Venues |-> NoState ] ]
    /\ aout = NoEvaluation
    /\ state = [lbankTicker |-> NoTicker, latokenTicker |-> NoTicker,
                uniswapQuote |-> NoQuote, lastLbankUpdate |-> -1,
                lastLatokenUpdate |-> -1, lastUniswapUpdate |-> -1,
                decision |-> NoCalculation]
    /\ sout = NoMarketEvaluation
    /\ solverOut = NoReturn
    /\ fillOut = NoFill
    /\ boot = NotStarted
    /\ store = << >>
    /\ engines = << >>
    /\ feed = << >>
    /\ consumed = 0
    /\ accepted = {}

(* ------------------------------- Init ---------------------------------- *)
EngineInit ==
    /\ config \in Configs
    /\ trades = << >>
    /\ decisionRecords = << >>
    /\ activeOrders = {}
    /\ pc = "idle"
    /\ req = NoReq
    /\ cur = 0
    /\ result = NoResult
    /\ uuids = 0
    /\ msgs = 0
    /\ calls = 0
    /\ origin = << >>
    /\ evalCalls = 0
    /\ arg = NoDecision

Init ==
    /\ EngineInit
    /\ vin = NoInput
    /\ vout = NoValidation
    /\ ExtInit
    /\ din = NoCalculation
    /\ NoCalls

(* ------------------------- evaluateAndExecute -------------------------- *)
\* The requested size without the clamp to MAX_ORDER_USDT
requestedSize_unclamped(cfg, decision) == decision.suggested_size_usdt

\* size_usdt of the execute() call evaluateAndExecute makes
requestedSize(cfg, decision) == Min(decision.suggested_size_usdt, cfg.MAX_ORDER_USDT)

\* evaluateAndExecute(decision), for a delivery of bus message m carrying it
evaluateAndExecute(m, decision) ==
    /\ pc = "idle"
    /\ calls < MaxCalls
    /\ calls' = calls + 1
    /\ evalCalls' = evalCalls + 1
    /\ arg' = decision
    /\ decisionRecords' = insertDecision(decisionRecords,
          [ id |-> Len(decisionRecords) + 1,
            edge_after_costs_bps |-> decision.edge_after_costs_bps,
            would_trade |-> decision.would_trade,
            suggested_size_usdt |-> decision.suggested_size_usdt,
            executed |-> FALSE ])
    /\ IF ~decision.would_trade
         THEN /\ req' = NoReq
              /\ UNCHANGED << pc, uuids >>
         ELSE LET v == validateExecution(config, decision, getDailyVolume(trades),
                                          Cardinality(activeOrders))
              IN IF ~v.valid
                      THEN /\ req' = NoReq
                           /\ UNCHANGED << pc, uuids >>
                      ELSE /\ req' = [ size_usdt |-> requestedSize(config, decision),
                                       edge_bps |-> decision.edge_after_costs_bps,
                                       idempotency_key |-> -(uuids + 1),
                                       msg |-> m ]
                           /\ uuids' = uuids + 1
                           /\ pc' = "execute"
    /\ result' = NoResult
    /\ UNCHANGED << config, trades, activeOrders, cur, origin, vin, vout, extVars >>

\* The bus delivers a new StrategyDecision message
deliver(decision) ==
    /\ msgs' = msgs + 1
    /\ evaluateAndExecute(msgs + 1, decision)

\* The bus delivers the last StrategyDecision message once more (at-least-once)
redeliver ==
    /\ msgs > 0
    /\ msgs' = msgs
    /\ evaluateAndExecute(msgs, arg)

(* ------------------------------ execute -------------------------------- *)
\* A caller invokes execute(params) directly
callExecute(size, edge, key) ==
    /\ pc = "idle"
    /\ calls < MaxCalls
    /\ calls' = calls + 1
    /\ req' = [size_usdt |-> size, edge_bps |-> edge, idempotency_key |-> key, msg |-> 0]
    /\ pc' = "execute"
    /\ result' = NoResult
    /\ UNCHANGED << config, trades, decisionRecords, activeOrders, cur,
                    uuids, msgs, origin, evalCalls, arg, vin, vout, extVars >>

\* The checks of execute() without the idempotency check
executeCheck_noIdempotency(cfg, db, params) ==
    IF params.size_usdt > cfg.MAX_ORDER_USDT THEN "rejected"
    ELSE "pending"

\* The checks of execute() with the size validated before the idempotency key
executeCheck_sizeFirst(cfg, db, params) ==
    IF params.size_usdt > cfg.MAX_ORDER_USDT THEN "rejected"
    ELSE IF checkIdempotencyKey(db, params.idempotency_key) THEN "duplicate"
    ELSE "pending"

\* The checks of execute() with the size compared to the daily limit
executeCheck_dailyLimit(cfg, db, params) ==
    IF checkIdempotencyKey(db, params.idempotency_key) THEN "duplicate"
    ELSE IF params.size_usdt > cfg.MAX_DAILY_VOLUME_USDT THEN "rejected"
    ELSE "pending"

\* The checks at the head of execute(): which way the call goes
executeCheck(cfg, db, params) ==
    IF checkIdempotencyKey(db, params.idempotency_key) THEN "duplicate"
    ELSE IF params.size_usdt > cfg.MAX_ORDER_USDT THEN "rejected"
    ELSE "pending"

\* execute(), up to the dispatch on the mode
execute ==
    /\ pc = "execute"
    /\ LET c == executeCheck(config, trades, req)
           tradeId == Len(trades) + 1
       IN CASE c = "duplicate" ->
                 /\ result' = [ success |-> FALSE, trade_id |-> 0, status |-> "duplicate",
                                message |-> "Order already exists with this idempotency key" ]
                 /\ pc' = "idle"
                 /\ UNCHANGED << trades, activeOrders, cur, origin >>
            [] c = "rejected" ->
                 /\ result' = [ success |-> FALSE, trade_id |-> 0, status |-> "rejected",
                                message |-> "Order size exceeds max" ]
                 /\ pc' = "idle"
                 /\ UNCHANGED << trades, activeOrders, cur, origin >>
            [] c = "pending" ->
                 /\ trades' = insertTrade(trades,
                       [ id |-> tradeId,
                         size_usdt |-> req.size_usdt,
                         mode |-> config.EXECUTION_MODE,
                         status |-> "pending",
                         idempotency_key |-> req.idempotency_key ])
                 /\ activeOrders' = activeOrders \cup {tradeId}
                 /\ origin' = Append(origin, req.msg)
                 /\ cur' = tradeId
                 /\ pc' = "dispatch"
                 /\ UNCHANGED result
    /\ UNCHANGED << config, decisionRecords, req, uuids, msgs, calls, evalCalls, arg, vin, vout, extVars >>

\* executePaper that leaves the order in activeOrders
executePaper_keepActive ==
    /\ pc = "dispatch"
    /\ config.EXECUTION_MODE = "paper"
    /\ trades' = updateTradeStatus(trades, cur, "filled")
    /\ result' = [ success |-> TRUE, trade_id |-> cur, status |-> "filled",
                   message |-> "Paper trade simulated with real V4 prices" ]
    /\ pc' = "idle"
    /\ cur' = 0
    /\ UNCHANGED << config, decisionRecords, activeOrders, req, uuids, msgs, calls, origin,
                    evalCalls, arg, vin, vout, extVars >>

\* executePaper(trade): the simulated fill
executePaper ==
    /\ pc = "dispatch"
    /\ config.EXECUTION_MODE = "paper"
    /\ trades' = updateTradeStatus(trades, cur, "filled")
    /\ activeOrders' = activeOrders \ {cur}
    /\ result' = [ success |-> TRUE, trade_id |-> cur, status |-> "filled",
                   message |-> "Paper trade simulated with real V4 prices" ]
    /\ pc' = "idle"
    /\ cur' = 0
    /\ UNCHANGED << config, decisionRecords, req, uuids, msgs, calls, origin, evalCalls, arg,
                    vin, vout, extVars >>

\* executeLive that records the unplaced order as 'rejected'
executeLive_rejected ==
    /\ pc = "dispatch"
    /\ config.EXECUTION_MODE = "live"
    /\ trades' = updateTradeStatus(trades, cur, "rejected")
    /\ activeOrders' = activeOrders \ {cur}
    /\ result' = [ success |-> FALSE, trade_id |-> cur, status |-> "rejected",
                   message |-> "Live trading not yet implemented" ]
    /\ pc' = "idle"
    /\ cur' = 0
    /\ UNCHANGED << config, decisionRecords, req, uuids, msgs, calls, origin, evalCalls, arg,
                    vin, vout, extVars >>

\* executeLive that takes the credentials as missing only when both are
executeLive_bothMissing ==
    /\ pc = "dispatch"
    /\ config.EXECUTION_MODE = "live"
    /\ trades' = updateTradeStatus(trades, cur, "failed")
    /\ activeOrders' = activeOrders \ {cur}
    /\ result' = [ success |-> FALSE, trade_id |-> cur, status |-> "failed",
                   message |-> IF ~config.LBANK_API_KEY /\ ~config.LBANK_API_SECRET
                                 THEN "Missing LBank API credentials"
                                 ELSE "Live trading not yet implemented" ]
    /\ pc' = "idle"
    /\ cur' = 0
    /\ UNCHANGED << config, decisionRecords, req, uuids, msgs, calls, origin, evalCalls, arg,
                    vin, vout, extVars >>

\* executeLive(trade)
executeLive ==
    /\ pc = "dispatch"
    /\ config.EXECUTION_MODE = "live"
    /\ trades' = updateTradeStatus(trades, cur, "failed")
    /\ activeOrders' = activeOrders \ {cur}
    /\ result' = [ success |-> FALSE, trade_id |-> cur, status |-> "failed",
                   message |-> IF ~config.LBANK_API_KEY \/ ~config.LBANK_API_SECRET
                                 THEN "Missing LBank API credentials"
                                 ELSE "Live trading not yet implemented" ]
    /\ pc' = "idle"
    /\ cur' = 0
    /\ UNCHANGED << config, decisionRecords, req, uuids, msgs, calls, origin, evalCalls, arg,
                    vin, vout, extVars >>

\* The tail of execute() for a mode that is neither paper nor live
executeInvalidMode ==
    /\ pc = "dispatch"
    /\ config.EXECUTION_MODE \notin {"paper", "live"}
    /\ result' = [ success |-> FALSE, trade_id |-> cur, status |-> "rejected",
                   message |-> "Invalid execution mode" ]
    /\ pc' = "idle"
    /\ cur' = 0
    /\ UNCHANGED << config, trades, decisionRecords, activeOrders, req, uuids, msgs, calls,
                    origin, evalCalls, arg, vin, vout, extVars >>

Next ==
    \/ \E d \in Decisions : deliver(d)
    \/ redeliver
    \/ \E s \in Sizes, e \in Edges, k \in Keys : callExecute(s, e, k)
    \/ execute
    \/ executePaper
    \/ executeLive
    \/ executeInvalidMode

Spec == Init /\ [][Next]_vars

TypeOK ==
    /\ config \in Configs
    /\ pc \in {"idle", "execute", "dispatch"}
    /\ activeOrders \subseteq 1..Len(trades)
    /\ Len(origin) = Len(trades)

(* ------------- validateExecution as a function of its inputs ----------- *)
\* What validateExecution reads besides the config: the decision, the daily
\* volume of the store and the number of active orders.
ValidateInputs ==
    [ decision : Decisions, dailyVolume : 0..MaxSize, activeCount : 0..MaxActive ]

ValidateInit ==
    /\ EngineInit
    /\ vin \in ValidateInputs
    /\ vout = NoValidation
    /\ ExtInit
    /\ din = NoCalculation
    /\ NoCalls

applyValidate ==
    /\ vout = NoValidation
    /\ vout' = validateExecution(config, vin.decision, vin.dailyVolume, vin.activeCount)
    /\ UNCHANGED << engineVars, vin, extVars >>

ValidateNext == applyValidate

SpecValidate == ValidateInit /\ [][ValidateNext]_vars

(* ----------------------------- Paper Ledger ---------------------------- *)
DecisionIds == 1..MaxDecisionIds
LedgerStatuses == {"simulated", "would_execute"}

\* PaperLedger.hasDecision: SELECT COUNT(*) ... WHERE decision_id = ? is positive
hasDecision(rows, decisionId) ==
    Cardinality({ i \in 1..Len(rows) : rows[i].decision_id = decisionId }) > 0

\* PaperLedger.recordTrade(trade): inserts the trade under a fresh id
recordTrade(decisionId, status) ==
    /\ Len(ledger) < MaxRows
    /\ LET id == Len(ledger) + 1
       IN /\ ledger' = Append(ledger, [id |-> id, decision_id |-> decisionId,
                                       status |-> status])
          /\ lres' = [op |-> "recordTrade", decision_id |-> decisionId, id |-> id,
                      has |-> FALSE]
    /\ UNCHANGED notLedger

\* A caller asks hasDecision(decisionId)
queryHasDecision(decisionId) ==
    /\ lres' = [op |-> "hasDecision", decision_id |-> decisionId, id |-> 0,
                has |-> hasDecision(ledger, decisionId)]
    /\ UNCHANGED << notLedger, ledger >>

LedgerInit ==
    /\ EngineInit
    /\ config.EXECUTION_MODE = "paper"
    /\ ~config.KILL_SWITCH
    /\ vin = NoInput
    /\ vout = NoValidation
    /\ ExtInit
    /\ din = NoCalculation
    /\ NoCalls

LedgerNext ==
    \/ \E d \in DecisionIds, st \in LedgerStatuses : recordTrade(d, st)
    \/ \E d \in DecisionIds : queryHasDecision(d)

SpecLedger == LedgerInit /\ [][LedgerNext]_vars

(* --------------------------- stream consumer --------------------------- *)
\* What the loop does with an entry depends on its payload only through these
\* cases: no 'data' field, a payload that does not parse or validate, a
\* payload whose handler returns, a payload whose handler throws.
PayloadKinds == {"nodata", "unparsable", "valid", "throws"}

\* A producer adds an entry to the stream (XADD)
xadd(kind) ==
    /\ Len(stream) < MaxStream
    /\ stream' = Append(stream, kind)
    /\ UNCHANGED << lastDelivered, pel, batch, handled, cpc, fails, clog, notConsumer >>

\* XREADGROUP ... COUNT 10 STREAMS key '>': the entries never delivered to the
\* group, at most COUNT of them; they enter the pending list of the consumer.
xreadgroup ==
    /\ cpc = "read"
    /\ LET last == Min(Len(stream), lastDelivered + ReadCount)
           ids == [ i \in 1..(last - lastDelivered) |-> lastDelivered + i ]
       IN /\ batch' = ids
          /\ lastDelivered' = last
          /\ pel' = pel \cup { ids[i] : i \in 1..Len(ids) }
          /\ cpc' = IF ids = << >> THEN "read" ELSE "message"
    /\ UNCHANGED << stream, handled, fails, clog, notConsumer >>

\* The read throws: the outer catch logs and backs off
xreadgroupFails ==
    /\ cpc = "read"
    /\ fails < MaxFailures
    /\ fails' = fails + 1
    /\ clog' = "consume_error"
    /\ cpc' = "backoff"
    /\ UNCHANGED << stream, lastDelivered, pel, batch, handled, notConsumer >>

\* The body of the loop over the batch up to the acknowledgement it awaits
processMessage ==
    /\ cpc = "message"
    /\ LET id == Head(batch)
           kind == stream[id]
       IN CASE kind = "nodata" ->
                 /\ cpc' = "ackNoData"
                 /\ UNCHANGED << handled, clog >>
            [] kind = "unparsable" ->
                 /\ cpc' = "ackCatch"
                 /\ clog' = "message_failed"
                 /\ UNCHANGED handled
            [] kind = "valid" ->
                 /\ cpc' = "ackTry"
                 /\ handled' = handled \cup {id}
                 /\ UNCHANGED clog
            [] kind = "throws" ->
                 /\ cpc' = "ackCatch"
                 /\ handled' = handled \cup {id}
                 /\ clog' = "message_failed"
    /\ UNCHANGED << stream, lastDelivered, pel, batch, fails, notConsumer >>

\* xack(id) succeeds: the id leaves the pending list, the loop goes on
xack ==
    /\ cpc \in {"ackNoData", "ackTry", "ackCatch"}
    /\ pel' = pel \ {Head(batch)}
    /\ batch' = Tail(batch)
    /\ cpc' = IF Tail(batch) = << >> THEN "read" ELSE "message"
    /\ UNCHANGED << stream, lastDelivered, handled, fails, clog, notConsumer >>

\* xack(id) throws. Inside the try block the inner catch logs and acknowledges
\* again; anywhere else the outer catch logs and backs off, and the rest of
\* the batch is dropped with the loop's locals.
xackFails ==
    /\ cpc \in {"ackNoData", "ackTry", "ackCatch"}
    /\ fails < MaxFailures
    /\ fails' = fails + 1
    /\ IF cpc = "ackTry"
          THEN /\ cpc' = "ackCatch"
               /\ clog' = "message_failed"
               /\ UNCHANGED batch
          ELSE /\ cpc' = "backoff"
               /\ clog' = "consume_error"
               /\ batch' = << >>
    /\ UNCHANGED << stream, lastDelivered, pel, handled, notConsumer >>

\* backoff, except that the outer catch leaves the loop
backoff_exit ==
    /\ cpc = "backoff"
    /\ cpc' = "exited"
    /\ UNCHANGED << stream, lastDelivered, pel, batch, handled, fails, clog, notConsumer >>

\* The backoff timer of the outer catch fires: next iteration of while (true)
backoff ==
    /\ cpc = "backoff"
    /\ cpc' = "read"
    /\ UNCHANGED << stream, lastDelivered, pel, batch, handled, fails, clog, notConsumer >>

ConsumerInit ==
    /\ EngineInit
    /\ config.EXECUTION_MODE = "paper"
    /\ ~config.KILL_SWITCH
    /\ vin = NoInput
    /\ vout = NoValidation
    /\ ExtInit
    /\ din = NoCalculation
    /\ NoCalls

\* The steps of the consumer whose bus call succeeds
consumeStream == xreadgroup \/ processMessage \/ xack \/ backoff

ConsumerNext ==
    \/ \E kind \in PayloadKinds : xadd(kind)
    \/ xreadgroup
    \/ xreadgroupFails
    \/ processMessage
    \/ xack
    \/ xackFails
    \/ backoff

SpecConsumer == ConsumerInit /\ [][ConsumerNext]_vars

\* The event loop runs the consumer as long as it has a step to take, and a
\* bus that has recovered answers its calls.
SpecConsumerFair == SpecConsumer /\ WF_vars(consumeStream)

(* ------------------- StrategyEngine.calculateDecision ------------------ *)
\* Numbers are fixed-point. Prices and gas costs are in units of 0.0001 USDT;
\* basis points are in thousandths of a basis point, so that the two decimals
\* the decision keeps are a rounding to the nearest ten.
Bps(n) == n * 1000

\* Math.round(x * 100) / 100
Round2(x) == ((x + 5) \div 10) * 10

Max(a, b) == IF a >= b THEN a ELSE b

Prices == {123, 128} \cup { 200 + i : i \in 0..MaxTicks }

\* The Config fields calculateDecision reads
StrategyConfigs ==
    [ MIN_EDGE_BPS : {50},
      QUOTE_SIZE_USDT : {1000},
      MAX_TRADE_SIZE_USDT : {5000},
      CEX_TRADING_FEE_BPS : {0},
      DEX_LP_FEE_BPS : {0},
      GAS_COST_USDT : {0},
      INCLUDE_REBALANCE_COST : BOOLEAN,
      REBALANCE_COST_BPS : {1},
      SLIPPAGE_BUFFER_BPS : {0} ]

CexTickers == [ type : {"lbank.ticker", "latoken.ticker"}, bid : Prices, ask : Prices ]

\* gas_cost_usdt = -1 stands for a quote without the field; lp_fee_bps = 0 is
\* as falsy as a missing one
UniswapQuotes ==
    [ effective_price_usdt : Prices, lp_fee_bps : {0, 10}, gas_cost_usdt : -1..MaxGas ]

spreadBuyCexSellDex(ticker, quote) ==
    ((quote.effective_price_usdt - ticker.ask) * Bps(10000)) \div ticker.ask

spreadBuyDexSellCex(ticker, quote) ==
    ((ticker.bid - quote.effective_price_usdt) * Bps(10000)) \div quote.effective_price_usdt

bestDirection(s1, s2) ==
    IF s1 > s2 /\ s1 > 0 THEN "buy_cex_sell_dex"
    ELSE IF s2 > 0 THEN "buy_dex_sell_cex"
    ELSE "none"

rawSpreadBps(s1, s2) ==
    IF s1 > s2 /\ s1 > 0 THEN s1
    ELSE IF s2 > 0 THEN s2
    ELSE Max(s1, s2)

estimatedCostBps(cfg, quote) ==
    LET cexFeeBps == Bps(cfg.CEX_TRADING_FEE_BPS)
        dexFeeBps == IF quote.lp_fee_bps # 0
                        THEN Bps(quote.lp_fee_bps) \div 10
                        ELSE Bps(cfg.DEX_LP_FEE_BPS)
        realTimeGasCostUsdt == IF quote.gas_cost_usdt = -1
                                  THEN cfg.GAS_COST_USDT
                                  ELSE quote.gas_cost_usdt
        gasCostBps == Bps(realTimeGasCostUsdt) \div cfg.QUOTE_SIZE_USDT
        rebalanceBps == IF cfg.INCLUDE_REBALANCE_COST
                           THEN Bps(cfg.REBALANCE_COST_BPS) ELSE 0
        slippageBps == Bps(cfg.SLIPPAGE_BUFFER_BPS)
    IN cexFeeBps + dexFeeBps + gasCostBps + rebalanceBps + slippageBps

\* edgeAfterCostsBps, except that the costs are left out
edgeAfterCostsBps_noCosts(raw, cost) == raw

edgeAfterCostsBps(raw, cost) == raw - cost

calculateDecision(cfg, ticker, quote) ==
    LET s1 == spreadBuyCexSellDex(ticker, quote)
        s2 == spreadBuyDexSellCex(ticker, quote)
        raw == rawSpreadBps(s1, s2)
        direction == bestDirection(s1, s2)
        cost == estimatedCostBps(cfg, quote)
        edge == edgeAfterCostsBps(raw, cost)
        wouldTrade == edge >= Bps(cfg.MIN_EDGE_BPS) /\ direction # "none"
    IN [ lbank_bid |-> ticker.bid,
         lbank_ask |-> ticker.ask,
         uniswap_price |-> quote.effective_price_usdt,
         raw_spread_bps |-> Round2(raw),
         estimated_cost_bps |-> Round2(cost),
         edge_after_costs_bps |-> Round2(edge),
         would_trade |-> wouldTrade,
         direction |-> direction,
         suggested_size_usdt |-> IF wouldTrade
                                    THEN Min(cfg.QUOTE_SIZE_USDT, cfg.MAX_TRADE_SIZE_USDT)
                                    ELSE 0,
         reason |-> IF direction = "none" THEN "No positive spread opportunity"
                    ELSE IF ~wouldTrade THEN "below threshold"
                    ELSE "exceeds threshold" ]

DecisionInit ==
    /\ EngineInit
    /\ config.EXECUTION_MODE = "paper"
    /\ ~config.KILL_SWITCH
    /\ vin = NoInput
    /\ vout = NoValidation
    /\ ExtInit
    /\ NoCalls
    /\ din \in [ cfg : StrategyConfigs, ticker : CexTickers, quote : UniswapQuotes ]

applyCalculateDecision ==
    /\ dout = NoCalculation
    /\ dout' = calculateDecision(din.cfg, din.ticker, din.quote)
    /\ UNCHANGED << din, notDecision >>

DecisionNext == applyCalculateDecision

SpecDecision == DecisionInit /\ [][DecisionNext]_vars

(* ------------------ strategy service: evaluateArbitrage ---------------- *)
\* bid, ask and last are optional in a MarketTick: 0 stands for a missing
\* one, and is as falsy.
BookPrices == {200, 201, 202}

MarketTicks ==
    [ symbol : {"CSR/USDT"}, venue : Venues, ts : 0..MaxTime,
      bid : BookPrices, ask : BookPrices, last : {0} ]
      \cup [ symbol : {"CSR/USDT"}, venue : Venues, ts : 0..MaxTime,
              bid : {0}, ask : {0}, last : BookPrices ]

\* the ticks of the order-book specification: either symbol, LBank or Uniswap,
\* any timestamp, a bid and an ask or a last price only
BookTicks ==
    [ symbol : BookSymbols, venue : {"lbank", "uniswap_v4"}, ts : 0..MaxTickTs,
      bid : {200}, ask : {201}, last : {0} ]
      \cup [ symbol : BookSymbols, venue : {"lbank", "uniswap_v4"}, ts : 0..MaxTickTs,
              bid : {0}, ask : {0}, last : {203} ]

\* a || b
Or(a, b) == IF a # 0 THEN a ELSE b

\* the requests published for one direction: buy at buyAt, sell at sellAt
directionRequests(buyAt, sellAt, minEdgeBps, direction) ==
    IF buyAt # 0 /\ sellAt # 0 /\ sellAt > buyAt
          /\ (sellAt - buyAt) * 10000 > minEdgeBps * buyAt
       THEN << direction >>
       ELSE << >>

evaluateArbitrage(venues, minEdgeBps) ==
    LET cex == IF venues["lbank"] # NoState THEN venues["lbank"] ELSE venues["latoken"]
        dex == venues["uniswap_v4"]
    IN IF cex = NoState \/ dex = NoState
          THEN [evaluated |-> TRUE, used |-> FALSE, cex |-> cex.venue,
                requests |-> << >>, log |-> "none"]
          ELSE LET cexAsk == Or(cex.ask, cex.last)
                   dexBid == Or(dex.bid, dex.last)
                   dexAsk == Or(dex.ask, dex.last)
                   cexBid == Or(cex.bid, cex.last)
                   requests == directionRequests(cexAsk, dexBid, minEdgeBps, "buy_cex_sell_dex")
                                  \o directionRequests(dexAsk, cexBid, minEdgeBps, "buy_dex_sell_cex")
               IN [evaluated |-> TRUE, used |-> TRUE, cex |-> cex.venue,
                   requests |-> requests,
                   log |-> IF requests = << >> THEN "none" ELSE "opportunity_found"]

\* onMarketTick with the values of the older state kept where the tick has none
onMarketTick_merging(tick) ==
    LET old == orderBook[tick.symbol][tick.venue]
        kept(field) == IF old = NoState THEN 0 ELSE old[field]
    IN  /\ orderBook' = [orderBook EXCEPT ![tick.symbol][tick.venue] =
                            [bid |-> Or(tick.bid, kept("bid")),
                             ask |-> Or(tick.ask, kept("ask")),
                             last |-> Or(tick.last, kept("last")),
                             ts |-> tick.ts, venue |-> tick.venue]]
        /\ aout' = evaluateArbitrage(orderBook'[tick.symbol], 50)

\* onMarketTick(tick): what it does to the order book and what its evaluation
\* emits
onMarketTick(tick) ==
    /\ orderBook' = [orderBook EXCEPT ![tick.symbol][tick.venue] =
                        [bid |-> tick.bid, ask |-> tick.ask, last |-> tick.last,
                         ts |-> tick.ts, venue |-> tick.venue]]
    /\ aout' = evaluateArbitrage(orderBook'[tick.symbol], 50)

\* time passes
clock ==
    /\ now < MaxTime
    /\ now' = now + 1
    /\ UNCHANGED << arbitrageVars, strategyVars, engineVars, vin, vout, ledgerVars,
                    consumerVars, decisionVars, laterVars >>

ArbitrageInit ==
    /\ EngineInit
    /\ config.EXECUTION_MODE = "paper"
    /\ ~config.KILL_SWITCH
    /\ vin = NoInput
    /\ vout = NoValidation
    /\ ExtInit
    /\ din = NoCalculation
    /\ NoCalls

\* a tick is stamped by its gateway at the current time and handled at once
ArbitrageNext ==
    \/ \E tick \in MarketTicks :
          tick.ts = now /\ onMarketTick(tick) /\ UNCHANGED << now, notArbitrage >>
    \/ clock

SpecArbitrage == ArbitrageInit /\ [][ArbitrageNext]_vars

\* ticks of either symbol handled in any order of their timestamps
BookNext ==
    \E tick \in BookTicks : onMarketTick(tick) /\ UNCHANGED << now, notArbitrage >>

SpecBook == ArbitrageInit /\ [][BookNext]_vars

(* --------------------- StrategyEngine.evaluateMarket ------------------- *)
\* config.MAX_STALENESS_SECONDS * 1000, in clock units
maxStaleness == MaxTime - 1

Symbols == {"csr_usdt", "btc_usdt"}

\* config.SYMBOLS
trackedSymbols == {"csr_usdt"}

marketConfig ==
    [ MIN_EDGE_BPS |-> 50, QUOTE_SIZE_USDT |-> 1000, MAX_TRADE_SIZE_USDT |-> 5000,
      CEX_TRADING_FEE_BPS |-> 0, DEX_LP_FEE_BPS |-> 0, GAS_COST_USDT |-> 0,
      INCLUDE_REBALANCE_COST |-> FALSE, REBALANCE_COST_BPS |-> 1,
      SLIPPAGE_BUFFER_BPS |-> 0 ]

LBankTickers == [ type : {"lbank.ticker"}, bid : {200}, ask : {201, 202} ]
LatokenTickers == [ type : {"latoken.ticker"}, bid : {200}, ask : {201, 202} ]

\* error: the quote has an error text; validated: the field is not false;
\* real: the source starts with "uniswap_v4"
MarketQuotes ==
    [ effective_price_usdt : {201, 203}, lp_fee_bps : {0}, gas_cost_usdt : {-1},
      error : BOOLEAN, validated : BOOLEAN, real : BOOLEAN ]

getBestCexTicker(market, t) ==
    IF market.lbankTicker # NoTicker /\ market.lastLbankUpdate # -1
          /\ t - market.lastLbankUpdate < maxStaleness
       THEN market.lbankTicker
    ELSE IF market.latokenTicker # NoTicker /\ market.lastLatokenUpdate # -1
               /\ t - market.lastLatokenUpdate < maxStaleness
       THEN market.latokenTicker
    ELSE NoTicker

isMarketDataStale(market, t) ==
    LET hasCex == market.lastLbankUpdate # -1 \/ market.lastLatokenUpdate # -1
        cexAges == { t - u : u \in {market.lastLbankUpdate, market.lastLatokenUpdate} \ {-1} }
        cexAge == CHOOSE a \in cexAges : \A b \in cexAges : a <= b
        uniswapAge == t - market.lastUniswapUpdate
    IN IF ~hasCex \/ market.lastUniswapUpdate = -1
          THEN TRUE
          ELSE cexAge > maxStaleness \/ uniswapAge > maxStaleness

\* evaluateMarket without the check of the quote's source
evaluateMarket_anySource(market, t) ==
    LET cexTicker == getBestCexTicker(market, t)
        uniswapQuote == market.uniswapQuote
        skipped(reason) == [ market |-> market,
                             out |-> [reason |-> reason, cex |-> cexTicker.type,
                                      decisions |-> 0] ]
    IN IF cexTicker = NoTicker \/ uniswapQuote = NoQuote THEN skipped("incomplete_data")
       ELSE IF isMarketDataStale(market, t) THEN skipped("stale_data")
       ELSE IF uniswapQuote.error THEN skipped("quote_error")
       ELSE IF ~uniswapQuote.validated THEN skipped("invalid_or_unvalidated_quote")
       ELSE LET decision == calculateDecision(marketConfig, cexTicker, uniswapQuote)
            IN [ market |-> [market EXCEPT !.decision = decision],
                 out |-> [reason |-> "strategy_decision", cex |-> cexTicker.type,
                          decisions |-> 1] ]

\* evaluateMarket on the market state, at time t: the market state it leaves
\* and what it logged and emitted
evaluateMarket(market, t) ==
    LET cexTicker == getBestCexTicker(market, t)
        uniswapQuote == market.uniswapQuote
        skipped(reason) == [ market |-> market,
                             out |-> [reason |-> reason, cex |-> cexTicker.type,
                                      decisions |-> 0] ]
    IN IF cexTicker = NoTicker \/ uniswapQuote = NoQuote THEN skipped("incomplete_data")
       ELSE IF isMarketDataStale(market, t) THEN skipped("stale_data")
       ELSE IF uniswapQuote.error THEN skipped("quote_error")
       ELSE IF ~uniswapQuote.validated THEN skipped("invalid_or_unvalidated_quote")
       ELSE IF ~uniswapQuote.real THEN skipped("non_real_or_invalid_uniswap_quote")
       ELSE LET decision == calculateDecision(marketConfig, cexTicker, uniswapQuote)
            IN [ market |-> [market EXCEPT !.decision = decision],
                 out |-> [reason |-> "strategy_decision", cex |-> cexTicker.type,
                          decisions |-> 1] ]

updateLBankTicker(symbol, ticker) ==
    /\ IF symbol \in trackedSymbols
          THEN LET ev == evaluateMarket([state EXCEPT !.lbankTicker = ticker,
                                                     !.lastLbankUpdate = now], now)
               IN state' = ev.market /\ sout' = ev.out
          ELSE UNCHANGED << state, sout >>
    /\ UNCHANGED << now, notStrategy >>

updateLatokenTicker(symbol, ticker) ==
    /\ IF symbol \in trackedSymbols
          THEN LET ev == evaluateMarket([state EXCEPT !.latokenTicker = ticker,
                                                     !.lastLatokenUpdate = now], now)
               IN state' = ev.market /\ sout' = ev.out
          ELSE UNCHANGED << state, sout >>
    /\ UNCHANGED << now, notStrategy >>

updateUniswapQuote(quote, symbol) ==
    /\ IF symbol \in trackedSymbols
          THEN LET ev == evaluateMarket([state EXCEPT !.uniswapQuote = quote,
                                                     !.lastUniswapUpdate = now], now)
               IN state' = ev.market /\ sout' = ev.out
          ELSE UNCHANGED << state, sout >>
    /\ UNCHANGED << now, notStrategy >>

StrategyInit ==
    /\ EngineInit
    /\ config.EXECUTION_MODE = "paper"
    /\ ~config.KILL_SWITCH
    /\ vin = NoInput
    /\ vout = NoValidation
    /\ ExtInit
    /\ din = NoCalculation
    /\ NoCalls

StrategyNext ==
    \/ \E symbol \in Symbols, ticker \in LBankTickers : updateLBankTicker(symbol, ticker)
    \/ \E symbol \in Symbols, ticker \in LatokenTickers : updateLatokenTicker(symbol, ticker)
    \/ \E symbol \in Symbols, quote \in MarketQuotes : updateUniswapQuote(quote, symbol)
    \/ clock

SpecStrategy == StrategyInit /\ [][StrategyNext]_vars

(* ------------------------- alignment solver ---------------------------- *)
\* A JavaScript number of the solver: a finite value held in thousandths, or
\* Infinity, -Infinity, NaN; null is the absent gasUsdt and lastTradeTs.
\* Finite results are cut to a whole number of thousandths; a zero is +0.
Thousandths(n) == [k |-> "num", v |-> n]
Whole(n) == Thousandths(n * 1000)
Infinity == [k |-> "inf", v |-> 1]
NegInfinity == [k |-> "inf", v |-> -1]
NaN == [k |-> "nan", v |-> 0]
Null == [k |-> "null", v |-> 0]

sign(n) == IF n > 0 THEN 1 ELSE IF n < 0 THEN -1 ELSE 0
signOf(a) == IF a.k = "inf" THEN a.v ELSE sign(a.v)
Inf(s) == IF s > 0 THEN Infinity ELSE NegInfinity
truthy(a) == a.k = "inf" \/ (a.k = "num" /\ a.v # 0)

negate(a) ==
    CASE a.k = "num" -> Thousandths(-a.v)
      [] a.k = "inf" -> Inf(-a.v)
      [] OTHER -> NaN

MathAbs(a) ==
    CASE a.k = "num" -> Thousandths(IF a.v < 0 THEN -a.v ELSE a.v)
      [] a.k = "inf" -> Infinity
      [] OTHER -> NaN

plus(a, b) ==
    IF a.k = "nan" \/ b.k = "nan" THEN NaN
    ELSE IF a.k = "inf" /\ b.k = "inf" THEN (IF a.v = b.v THEN a ELSE NaN)
    ELSE IF a.k = "inf" THEN a
    ELSE IF b.k = "inf" THEN b
    ELSE Thousandths(a.v + b.v)

minus(a, b) == plus(a, negate(b))

times(a, b) ==
    IF a.k = "nan" \/ b.k = "nan" THEN NaN
    ELSE IF a.k = "inf" \/ b.k = "inf"
         THEN (IF signOf(a) * signOf(b) = 0 THEN NaN ELSE Inf(signOf(a) * signOf(b)))
    ELSE IF b.v % 1000 = 0 THEN Thousandths(a.v * (b.v \div 1000))
    ELSE IF a.v % 1000 = 0 THEN Thousandths((a.v \div 1000) * b.v)
    ELSE Thousandths((a.v * b.v) \div 1000)

over(a, b) ==
    IF a.k = "nan" \/ b.k = "nan" THEN NaN
    ELSE IF a.k = "inf" /\ b.k = "inf" THEN NaN
    ELSE IF a.k = "inf" THEN Inf(a.v * (IF signOf(b) < 0 THEN -1 ELSE 1))
    ELSE IF b.k = "inf" THEN Thousandths(0)
    ELSE IF b.v = 0 THEN (IF a.v = 0 THEN NaN ELSE Inf(sign(a.v)))
    ELSE IF b.v < 0 THEN Thousandths(((-a.v) * 1000) \div (-b.v))
    ELSE IF b.v % 1000 = 0 THEN Thousandths(a.v \div (b.v \div 1000))
    ELSE Thousandths((a.v * 1000) \div b.v)

\* a < b and a <= b: false as soon as one side is NaN
lessThan(a, b) ==
    /\ a.k # "nan"
    /\ b.k # "nan"
    /\ IF a.k = "inf" THEN a.v = -1 /\ b # NegInfinity
       ELSE IF b.k = "inf" THEN b.v = 1
       ELSE a.v < b.v

atMost(a, b) == a.k # "nan" /\ b.k # "nan" /\ (a = b \/ lessThan(a, b))

MathMin(a, b) ==
    IF a.k = "nan" \/ b.k = "nan" THEN NaN ELSE IF lessThan(b, a) THEN b ELSE a

MathMax(a, b) ==
    IF a.k = "nan" \/ b.k = "nan" THEN NaN ELSE IF lessThan(a, b) THEN b ELSE a

\* Array.prototype.sort with the comparator key(a) - key(b): stable, and a NaN
\* difference counts as 0
RECURSIVE insertKeyed(_, _)
insertKeyed(x, s) ==
    IF s = << >> THEN << x >>
    ELSE IF lessThan(x.key, Head(s).key) THEN << x >> \o s
    ELSE << Head(s) >> \o insertKeyed(x, Tail(s))

RECURSIVE sortKeyed(_)
sortKeyed(s) ==
    IF s = << >> THEN << >>
    ELSE insertKeyed(s[Len(s)], sortKeyed(SubSeq(s, 1, Len(s) - 1)))

\* s sorted by the keys given for its elements, in the same order
sortByKeys(s, keys) ==
    LET keyed == [ i \in 1..Len(s) |-> [item |-> s[i], key |-> keys[i]] ]
        sorted == sortKeyed(keyed)
    IN  [ i \in 1..Len(s) |-> sorted[i].item ]

classifyBand_strict(deviationPercent, cfg) ==
    LET absDeviation == MathAbs(deviationPercent)
    IN  IF lessThan(absDeviation, cfg.bands.neutralPercent) THEN "neutral"
        ELSE IF atMost(absDeviation, cfg.bands.softPercent) THEN "soft"
        ELSE "hard"

classifyBand(deviationPercent, cfg) ==
    LET absDeviation == MathAbs(deviationPercent)
    IN  IF atMost(absDeviation, cfg.bands.neutralPercent) THEN "neutral"
        ELSE IF atMost(absDeviation, cfg.bands.softPercent) THEN "soft"
        ELSE "hard"

comparePrices(cexPrice, dexPrice, dexSizeUsdt, cfg) ==
    LET deviationPercent == times(over(minus(dexPrice, cexPrice), cexPrice), Whole(100))
        deviationBps == times(deviationPercent, Whole(100))
    IN  [ cexPrice |-> cexPrice,
          dexPrice |-> dexPrice,
          dexSizeUsdt |-> dexSizeUsdt,
          deviationPercent |-> deviationPercent,
          deviationBps |-> deviationBps,
          bandStatus |-> classifyBand(deviationPercent, cfg) ]

\* estimateCosts with its default lpFeeBps = 30
estimateCosts(tradeSizeUsdt, gasUsdt) ==
    LET lpFeeBps == Whole(30)
        slippageBps == MathMin(over(tradeSizeUsdt, Whole(100)), Whole(50))
        gasCostBps == IF truthy(gasUsdt)
                      THEN times(over(gasUsdt, tradeSizeUsdt), Whole(10000))
                      ELSE Whole(0)
    IN  [ dexFeeBps |-> lpFeeBps,
          gasUsdt |-> gasUsdt,
          slippageBps |-> slippageBps,
          totalCostBps |-> plus(plus(lpFeeBps, gasCostBps), slippageBps) ]

estimateBenefit(currentDeviationBps, expectedPostDeviationBps, costs) ==
    LET gapReductionBps == minus(MathAbs(currentDeviationBps),
                                 MathAbs(expectedPostDeviationBps))
        protectionValueBps == times(gapReductionBps, Thousandths(500))
    IN  [ gapReductionBps |-> gapReductionBps,
          protectionValueBps |-> protectionValueBps,
          netBenefitBps |-> minus(plus(gapReductionBps, protectionValueBps),
                                  costs.totalCostBps) ]

brackets(lower, upper, targetPrice) ==
    \/ /\ atMost(lower.price_usdt_per_token, targetPrice)
       /\ atMost(targetPrice, upper.price_usdt_per_token)
    \/ /\ atMost(targetPrice, lower.price_usdt_per_token)
       /\ atMost(upper.price_usdt_per_token, targetPrice)

validEntries(ladder) == SelectSeq(ladder, LAMBDA q : q.valid)

interpolateQuoteLadder(ladder, targetPrice) ==
    LET unsorted == validEntries(ladder)
        validLadder == sortByKeys(unsorted,
                                  [ n \in 1..Len(unsorted) |-> unsorted[n].amountInUSDT ])
        found == { i \in 1..(Len(validLadder) - 1) :
                       brackets(validLadder[i], validLadder[i + 1], targetPrice) }
        i == CHOOSE j \in found : \A l \in found : j <= l
        lower == validLadder[i]
        upper == validLadder[i + 1]
        ratio == over(minus(targetPrice, lower.price_usdt_per_token),
                      minus(upper.price_usdt_per_token, lower.price_usdt_per_token))
        size == plus(lower.amountInUSDT,
                     times(ratio, minus(upper.amountInUSDT, lower.amountInUSDT)))
        first == validLadder[1]
        last == validLadder[Len(validLadder)]
    IN  IF Len(validLadder) = 0 THEN [size |-> Whole(0), achievable |-> FALSE]
        ELSE IF found # {} THEN [size |-> MathMax(Whole(0), size), achievable |-> TRUE]
        ELSE IF lessThan(MathAbs(minus(first.price_usdt_per_token, targetPrice)),
                         MathAbs(minus(last.price_usdt_per_token, targetPrice)))
             THEN [size |-> first.amountInUSDT, achievable |-> FALSE]
        ELSE [size |-> last.amountInUSDT, achievable |-> FALSE]

\* Date.now() in milliseconds: one tick of the clock is 60 s, and the clock starts
\* 180 s after the epoch, more than any cooldown
DateNow(t) == Whole((t + 3) * 60000)

checkCooldown_inclusive(lastTradeTs, lastDirection, lastSizeUsdt, cooldownSeconds) ==
    LET elapsed == over(minus(DateNow(now), lastTradeTs), Whole(1000))
        remaining == MathMax(Whole(0), minus(cooldownSeconds, elapsed))
    IN  IF ~truthy(lastTradeTs)
        THEN [ lastTradeTs |-> Null, lastDirection |-> "none", lastSizeUsdt |-> Whole(0),
               inCooldown |-> FALSE, cooldownRemaining |-> Whole(0) ]
        ELSE [ lastTradeTs |-> lastTradeTs, lastDirection |-> lastDirection,
               lastSizeUsdt |-> lastSizeUsdt,
               inCooldown |-> atMost(Whole(0), remaining),
               cooldownRemaining |-> remaining ]

checkCooldown(lastTradeTs, lastDirection, lastSizeUsdt, cooldownSeconds) ==
    LET elapsed == over(minus(DateNow(now), lastTradeTs), Whole(1000))
        remaining == MathMax(Whole(0), minus(cooldownSeconds, elapsed))
    IN  IF ~truthy(lastTradeTs)
        THEN [ lastTradeTs |-> Null, lastDirection |-> "none", lastSizeUsdt |-> Whole(0),
               inCooldown |-> FALSE, cooldownRemaining |-> Whole(0) ]
        ELSE [ lastTradeTs |-> lastTradeTs, lastDirection |-> lastDirection,
               lastSizeUsdt |-> lastSizeUsdt,
               inCooldown |-> lessThan(Whole(0), remaining),
               cooldownRemaining |-> remaining ]

computeSuggestion(prices, quoteLadder, gasUsdt, cfg, cooldown) ==
    LET noTrade == [ shouldTrade |-> FALSE, direction |-> "none",
                     suggestedSizeUsdt |-> Whole(0), suggestedSizeTokens |-> Whole(0),
                     targetPrice |-> prices.cexPrice,
                     expectedPostTradePrice |-> prices.dexPrice,
                     costs |-> estimateCosts(Whole(0), Null),
                     benefit |-> [ gapReductionBps |-> Whole(0),
                                   protectionValueBps |-> Whole(0),
                                   netBenefitBps |-> Whole(0) ],
                     reason |-> "", blocked |-> FALSE, blockReason |-> "none" ]
        direction == IF lessThan(Whole(0), prices.deviationPercent)
                     THEN "sell_dex" ELSE "buy_dex"
        marginMultiplier ==
            IF direction = "buy_dex"
            THEN minus(Whole(1), over(cfg.bands.alignmentMargin, Whole(100)))
            ELSE plus(Whole(1), over(cfg.bands.alignmentMargin, Whole(100)))
        targetPrice == times(prices.cexPrice, marginMultiplier)
        requiredSize == interpolateQuoteLadder(quoteLadder, targetPrice).size
        suggestedSizeUsdt == MathMin(requiredSize, cfg.maxTradeSizeUsdt)
        unsorted == validEntries(quoteLadder)
        byDistance == sortByKeys(unsorted,
                                 [ n \in 1..Len(unsorted) |->
                                       MathAbs(minus(unsorted[n].amountInUSDT,
                                                     suggestedSizeUsdt)) ])
        expectedPostTradePrice ==
            IF byDistance # << >> /\ truthy(byDistance[1].price_usdt_per_token)
            THEN byDistance[1].price_usdt_per_token
            ELSE prices.dexPrice
        suggestedSizeTokens == over(suggestedSizeUsdt, expectedPostTradePrice)
        costs == estimateCosts(suggestedSizeUsdt, gasUsdt)
        expectedPostDeviationBps ==
            times(over(minus(expectedPostTradePrice, prices.cexPrice), prices.cexPrice),
                  Whole(10000))
        benefit == estimateBenefit(prices.deviationBps, expectedPostDeviationBps, costs)
        sized == [ noTrade EXCEPT !.direction = direction,
                                  !.suggestedSizeUsdt = suggestedSizeUsdt,
                                  !.suggestedSizeTokens = suggestedSizeTokens,
                                  !.targetPrice = targetPrice,
                                  !.expectedPostTradePrice = expectedPostTradePrice,
                                  !.costs = costs,
                                  !.benefit = benefit ]
    IN  IF prices.bandStatus = "neutral"
        THEN [ noTrade EXCEPT !.reason = "Price within neutral band - no action needed" ]
        ELSE IF cooldown.inCooldown
        THEN [ noTrade EXCEPT !.reason = "In cooldown", !.blocked = TRUE,
                              !.blockReason = "cooldown" ]
        ELSE IF lessThan(benefit.netBenefitBps, cfg.minBenefitBps)
        THEN [ sized EXCEPT !.reason = "Uneconomical" ]
        ELSE IF prices.bandStatus = "soft"
        THEN [ sized EXCEPT !.reason = "Soft deviation - trade optional" ]
        ELSE [ sized EXCEPT !.shouldTrade = TRUE,
                            !.reason = "Hard deviation - alignment recommended" ]

computeAlignmentDecision(cexPrice, quoteLadder, selectedSizeUsdt, gasUsdt, cfg, lastTradeTs, lastDirection, lastSizeUsdt) ==
    LET selected == SelectSeq(quoteLadder,
                              LAMBDA q : q.amountInUSDT = selectedSizeUsdt /\ q.valid)
        valid == validEntries(quoteLadder)
        dexPrice == IF selected # << >> /\ truthy(selected[1].price_usdt_per_token)
                    THEN selected[1].price_usdt_per_token
                    ELSE IF valid # << >> /\ truthy(valid[1].price_usdt_per_token)
                    THEN valid[1].price_usdt_per_token
                    ELSE Whole(0)
        prices == comparePrices(cexPrice, dexPrice, selectedSizeUsdt, cfg)
        cooldown == checkCooldown(lastTradeTs, lastDirection, lastSizeUsdt,
                                  cfg.cooldownSeconds)
    IN  [ prices |-> prices,
          suggestion |-> computeSuggestion(prices, quoteLadder, gasUsdt, cfg, cooldown),
          cooldown |-> cooldown ]

\* The calls made to the solver.  The entries of a ladder have different sizes, in
\* any order.
DEFAULT_CSR_CONFIG ==
    [ bands |-> [ neutralPercent |-> Thousandths(500), softPercent |-> Thousandths(1500),
                  hardPercent |-> Whole(3), alignmentMargin |-> Thousandths(200) ],
      maxTradeSizeUsdt |-> Whole(500),
      cooldownSeconds |-> Whole(120),
      minBenefitBps |-> Whole(10),
      mode |-> "off" ]

BandPercents == { Thousandths(500), Thousandths(1000), Thousandths(1500) }
BandConfigs ==
    { [ DEFAULT_CSR_CONFIG EXCEPT !.bands.neutralPercent = n, !.bands.softPercent = s ] :
          n \in BandPercents, s \in BandPercents }
Deviations ==
    { Thousandths(250 * i) : i \in (-MaxDeviation)..MaxDeviation }
        \cup { Infinity, NegInfinity, NaN }

LadderSizes == { Whole(100 * i) : i \in 1..MaxLadder }
LadderPrices == { Thousandths(980), Whole(1), Thousandths(1010), Thousandths(1020) }
TargetPrices == LadderPrices \cup { Thousandths(998), Thousandths(1002), Thousandths(1015) }
QuoteLadderEntries ==
    [ amountInUSDT : LadderSizes, price_usdt_per_token : LadderPrices, valid : BOOLEAN ]
QuoteLadders ==
    { l \in UNION { [ 1..n -> QuoteLadderEntries ] : n \in 0..MaxLadder } :
          \A i, j \in 1..Len(l) : i # j => l[i].amountInUSDT # l[j].amountInUSDT }
\* The ladders given to computeSuggestion directly: quotes at the margin around
\* a CEX price of 1 and beyond it
SuggestionPrices == { Thousandths(998), Thousandths(1002), Thousandths(1020) }
SuggestionEntries ==
    [ amountInUSDT : LadderSizes, price_usdt_per_token : SuggestionPrices, valid : BOOLEAN ]
SuggestionLadders ==
    { l \in UNION { [ 1..n -> SuggestionEntries ] : n \in 0..MaxLadder } :
          \A i, j \in 1..Len(l) : i # j => l[i].amountInUSDT # l[j].amountInUSDT }
\* The comparisons of a CEX price with a DEX price quoted for 100 USDT
PriceComparisons ==
    { comparePrices(cexPrice, dexPrice, Whole(100), DEFAULT_CSR_CONFIG) :
          cexPrice \in { Whole(0), Whole(1) },
          dexPrice \in { Thousandths(980), Whole(1), Thousandths(1020) } }
CooldownStates ==
    { [ lastTradeTs |-> Null, lastDirection |-> "none", lastSizeUsdt |-> Whole(0),
        inCooldown |-> FALSE, cooldownRemaining |-> Whole(0) ],
      [ lastTradeTs |-> DateNow(0), lastDirection |-> "buy_dex",
        lastSizeUsdt |-> Whole(100), inCooldown |-> TRUE,
        cooldownRemaining |-> Whole(60) ] }
LastTradeTimes == { Null, Whole(0), DateNow(0) }
CooldownSeconds == { Whole(0), Whole(60), Whole(90), Whole(120) }

SolverCalls ==
    [ fn : {"classifyBand"}, deviationPercent : Deviations, config : BandConfigs ]
    \cup [ fn : {"interpolateQuoteLadder"}, ladder : QuoteLadders,
           targetPrice : TargetPrices ]
    \cup [ fn : {"checkCooldown"}, lastTradeTs : LastTradeTimes,
           lastDirection : {"buy_dex", "sell_dex"}, lastSizeUsdt : LadderSizes,
           cooldownSeconds : CooldownSeconds ]
    \cup [ fn : {"computeAlignmentDecision"}, cexPrice : { Whole(0), Whole(1) },
           quoteLadder : QuoteLadders, selectedSizeUsdt : LadderSizes,
           gasUsdt : { Null, Thousandths(500) }, config : { DEFAULT_CSR_CONFIG },
           lastTradeTs : { Null, DateNow(0) } ]

\* The calls made to computeSuggestion directly
SuggestionCalls ==
    [ fn : {"computeSuggestion"}, prices : PriceComparisons,
      quoteLadder : SuggestionLadders, gasUsdt : { Null, Thousandths(500) },
      config : { DEFAULT_CSR_CONFIG }, cooldown : CooldownStates ]

applyClassifyBand ==
    /\ solverIn.fn = "classifyBand"
    /\ solverOut' = [ fn |-> "classifyBand",
                      bandStatus |-> classifyBand(solverIn.deviationPercent,
                                                  solverIn.config) ]
    /\ UNCHANGED << solverIn, now, notSolver >>

applyInterpolateQuoteLadder ==
    /\ solverIn.fn = "interpolateQuoteLadder"
    /\ solverOut' = [ fn |-> "interpolateQuoteLadder",
                      result |-> interpolateQuoteLadder(solverIn.ladder,
                                                        solverIn.targetPrice) ]
    /\ UNCHANGED << solverIn, now, notSolver >>

applyCheckCooldown ==
    /\ solverIn.fn = "checkCooldown"
    /\ solverOut' = [ fn |-> "checkCooldown", at |-> now,
                      cooldown |-> checkCooldown(solverIn.lastTradeTs,
                                                 solverIn.lastDirection,
                                                 solverIn.lastSizeUsdt,
                                                 solverIn.cooldownSeconds) ]
    /\ UNCHANGED << solverIn, now, notSolver >>

applyComputeAlignmentDecision ==
    /\ solverIn.fn = "computeAlignmentDecision"
    /\ solverOut' = [ fn |-> "computeAlignmentDecision",
                      decision |-> computeAlignmentDecision(
                                       solverIn.cexPrice, solverIn.quoteLadder,
                                       solverIn.selectedSizeUsdt, solverIn.gasUsdt,
                                       solverIn.config, solverIn.lastTradeTs,
                                       "none", Whole(0)) ]
    /\ UNCHANGED << solverIn, now, notSolver >>

applyComputeSuggestion ==
    /\ solverIn.fn = "computeSuggestion"
    /\ solverOut' = [ fn |-> "computeSuggestion",
                      suggestion |-> computeSuggestion(
                                         solverIn.prices, solverIn.quoteLadder,
                                         solverIn.gasUsdt, solverIn.config,
                                         solverIn.cooldown) ]
    /\ UNCHANGED << solverIn, now, notSolver >>

SolverInit ==
    /\ EngineInit
    /\ config.EXECUTION_MODE = "paper"
    /\ ~config.KILL_SWITCH
    /\ vin = NoInput
    /\ vout = NoValidation
    /\ ExtInit
    /\ din = NoCalculation
    /\ solverIn \in SolverCalls
    /\ fillIn = NoFillRequest
    /\ env = NoEnv

SolverNext ==
    \/ applyClassifyBand
    \/ applyInterpolateQuoteLadder
    \/ applyCheckCooldown
    \/ applyComputeAlignmentDecision
    \/ clock

SpecSolver == SolverInit /\ [][SolverNext]_vars

SuggestionInit ==
    /\ EngineInit
    /\ config.EXECUTION_MODE = "paper"
    /\ ~config.KILL_SWITCH
    /\ vin = NoInput
    /\ vout = NoValidation
    /\ ExtInit
    /\ din = NoCalculation
    /\ solverIn \in SuggestionCalls
    /\ fillIn = NoFillRequest
    /\ env = NoEnv

SuggestionNext == applyComputeSuggestion

SpecSuggestion == SuggestionInit /\ [][SuggestionNext]_vars

(* ----------------------------- paper fill ------------------------------- *)
\* executePaper's computation (lines 265-319).  Prices are in hundredths of USDT, sizes
\* in USDT, slippage and fees in whole basis points, the PnL in thousandths of USDT
\* (rounded down); an absent dex_price, cex_price or lp_fee_bps is 0.
NoParams == [dex_price |-> 0, cex_price |-> 0, lp_fee_bps |-> 0]

\* a / b in thousandths, rounded down
Ratio(a, b) == (a \div b) * 1000 + ((a % b) * 1000) \div b

simulatedFill_noSizeSlippage(trade, params, randomSlippageBps) ==
    LET dexPrice == params.dex_price
        cexPrice == params.cex_price
        lpFeeBps == IF params.lp_fee_bps # 0 THEN params.lp_fee_bps ELSE 30
        totalSlippageBps == randomSlippageBps
        buyAt == IF trade.direction = "buy_dex_sell_cex" THEN dexPrice ELSE cexPrice
        sellAt == IF trade.direction = "buy_dex_sell_cex" THEN cexPrice ELSE dexPrice
        effectiveBuyPrice == buyAt * (10000 + totalSlippageBps)
        effectiveSellPrice == sellAt * (10000 - totalSlippageBps)
        grossProfitUsdt == Ratio((effectiveSellPrice - effectiveBuyPrice) * trade.size_usdt,
                                 effectiveBuyPrice)
        lpFeeUsdt == (trade.size_usdt * lpFeeBps) \div 10
        gasFeeUsdt == 500
    IN  [ dex_price |-> dexPrice, cex_price |-> cexPrice, lp_fee_bps |-> lpFeeBps,
          slippage_bps |-> totalSlippageBps,
          pnl_usdt |-> IF dexPrice > 0 /\ cexPrice > 0
                       THEN grossProfitUsdt - lpFeeUsdt - gasFeeUsdt
                       ELSE ((trade.edge_bps - totalSlippageBps - lpFeeBps)
                                 * trade.size_usdt) \div 10 ]

simulatedFill(trade, params, randomSlippageBps) ==
    LET dexPrice == params.dex_price
        cexPrice == params.cex_price
        lpFeeBps == IF params.lp_fee_bps # 0 THEN params.lp_fee_bps ELSE 30
        sizeSlippageBps == (trade.size_usdt * 10) \div 1000
        totalSlippageBps == sizeSlippageBps + randomSlippageBps
        buyAt == IF trade.direction = "buy_dex_sell_cex" THEN dexPrice ELSE cexPrice
        sellAt == IF trade.direction = "buy_dex_sell_cex" THEN cexPrice ELSE dexPrice
        effectiveBuyPrice == buyAt * (10000 + totalSlippageBps)
        effectiveSellPrice == sellAt * (10000 - totalSlippageBps)
        grossProfitUsdt == Ratio((effectiveSellPrice - effectiveBuyPrice) * trade.size_usdt,
                                 effectiveBuyPrice)
        lpFeeUsdt == (trade.size_usdt * lpFeeBps) \div 10
        gasFeeUsdt == 500
    IN  [ dex_price |-> dexPrice, cex_price |-> cexPrice, lp_fee_bps |-> lpFeeBps,
          slippage_bps |-> totalSlippageBps,
          pnl_usdt |-> IF dexPrice > 0 /\ cexPrice > 0
                       THEN grossProfitUsdt - lpFeeUsdt - gasFeeUsdt
                       ELSE ((trade.edge_bps - totalSlippageBps - lpFeeBps)
                                 * trade.size_usdt) \div 10 ]

\* the TradeRecord execute() builds from its params (lines 219-230)
tradeOf(params) ==
    [ direction |-> params.direction, size_usdt |-> params.size_usdt,
      edge_bps |-> params.edge_bps ]

FillDirections == { "buy_dex_sell_cex", "buy_cex_sell_dex" }
FillSizes == { 500, 1000 }
FillPrices == { 0, 100, 102 }
FillFees == { 0, 5, 30 }
FillEdges == { 50, 200 }
RandomSlippageBps == 0..4
ExecuteParamsSet ==
    [ direction : FillDirections, size_usdt : FillSizes, edge_bps : FillEdges,
      dex_price : FillPrices, cex_price : FillPrices, lp_fee_bps : FillFees ]

\* execute() in paper mode, line 246: this.executePaper(trade), without the params
executeToPaper ==
    /\ fillIn.entry = "execute"
    /\ fillOut' = [ entry |-> "execute",
                    fill |-> simulatedFill(tradeOf(fillIn.params), NoParams,
                                           fillIn.random) ]
    /\ UNCHANGED << fillIn, notFill >>

\* executePaper(trade, params)
applyExecutePaper ==
    /\ fillIn.entry = "executePaper"
    /\ fillOut' = [ entry |-> "executePaper",
                    fill |-> simulatedFill(tradeOf(fillIn.params), fillIn.params,
                                           fillIn.random) ]
    /\ UNCHANGED << fillIn, notFill >>

FillInit ==
    /\ EngineInit
    /\ config.EXECUTION_MODE = "paper"
    /\ ~config.KILL_SWITCH
    /\ vin = NoInput
    /\ vout = NoValidation
    /\ ExtInit
    /\ din = NoCalculation
    /\ solverIn = NoCall
    /\ env = NoEnv
    /\ fillIn \in [ entry : {"execute", "executePaper"}, params : ExecuteParamsSet,
                    random : RandomSlippageBps ]

FillNext ==
    \/ executeToPaper
    \/ applyExecutePaper

SpecFill == FillInit /\ [][FillNext]_vars

(* --------------------------- configuration ----------------------------- *)
\* An environment variable is << >> when it is unset and << s >> when it is set to
\* the string s; so are the optional fields of the configuration.
EnvKillSwitch == { << >>, <<"true">>, <<"false">>, <<"TRUE">>, <<"1">>, <<"">> }
EnvModes == { << >>, <<"off">>, <<"paper">>, <<"live">>, <<"LIVE">> }
EnvSecrets == { << >>, <<"">>, <<"key">> }
Envs == [ EXECUTION_MODE : EnvModes, KILL_SWITCH : EnvKillSwitch,
          LBANK_API_KEY : EnvSecrets, LBANK_API_SECRET : EnvSecrets ]

\* zod: schema.default(d) parses d in place of undefined
zDefault(val, d) == IF val = << >> THEN << d >> ELSE val

\* the function given to z.preprocess for KILL_SWITCH: val === 'true' || val === true
preprocessKillSwitch(val) == << val = <<"true">> >>

\* ConfigSchema.safeParse(rawConfig), on the fields the startup and the engine read
ConfigSchema(rawConfig) ==
    LET mode == zDefault(rawConfig.EXECUTION_MODE, "off")[1]
    IN  [ success |-> mode \in {"off", "paper", "live"},
          data |-> [ EXECUTION_MODE |-> mode,
                     KILL_SWITCH |->
                         zDefault(preprocessKillSwitch(rawConfig.KILL_SWITCH), TRUE)[1],
                     LBANK_API_KEY |-> rawConfig.LBANK_API_KEY,
                     LBANK_API_SECRET |-> rawConfig.LBANK_API_SECRET ] ]

\* !s for an optional string
absent(s) == s = << >> \/ s = <<"">>

validateLiveMode_keyOnly(cfg) ==
    LET errors ==
            (IF cfg.KILL_SWITCH THEN << "KILL_SWITCH must be false for live mode" >>
             ELSE << >>)
            \o (IF absent(cfg.LBANK_API_KEY)
                THEN << "LBANK_API_KEY is required for live mode" >> ELSE << >>)
    IN  IF cfg.EXECUTION_MODE # "live" THEN [valid |-> TRUE, errors |-> << >>]
        ELSE [valid |-> errors = << >>, errors |-> errors]

validateLiveMode(cfg) ==
    LET errors ==
            (IF cfg.KILL_SWITCH THEN << "KILL_SWITCH must be false for live mode" >>
             ELSE << >>)
            \o (IF absent(cfg.LBANK_API_KEY)
                THEN << "LBANK_API_KEY is required for live mode" >> ELSE << >>)
            \o (IF absent(cfg.LBANK_API_SECRET)
                THEN << "LBANK_API_SECRET is required for live mode" >> ELSE << >>)
    IN  IF cfg.EXECUTION_MODE # "live" THEN [valid |-> TRUE, errors |-> << >>]
        ELSE [valid |-> errors = << >>, errors |-> errors]

\* loadConfig(): process.exit(1) when the schema rejects the environment
loadConfig ==
    /\ boot.pc = "start"
    /\ LET parsed == ConfigSchema(env)
       IN  boot' = IF parsed.success
                   THEN [pc |-> "loaded", config |-> parsed.data]
                   ELSE [pc |-> "exited", at |-> "loadConfig"]
    /\ UNCHANGED << env, notBoot >>

\* The startup of the service: the configuration is validated before the engine is
\* built, and the process exits non-zero when it is invalid.
validateAtStartup ==
    /\ boot.pc = "loaded"
    /\ LET validation == validateLiveMode(boot.config)
       IN  boot' = [ pc |-> IF validation.valid THEN "serving" ELSE "exited",
                     at |-> "validateLiveMode",
                     config |-> boot.config,
                     validation |-> validation,
                     served |-> FALSE ]
    /\ UNCHANGED << env, notBoot >>

\* The running service passes a request to its engine's execute()
serveExecute ==
    /\ boot.pc = "serving"
    /\ ~boot.served
    /\ boot' = [boot EXCEPT !.served = TRUE]
    /\ UNCHANGED << env, notBoot >>

BootInit ==
    /\ EngineInit
    /\ config.EXECUTION_MODE = "paper"
    /\ ~config.KILL_SWITCH
    /\ vin = NoInput
    /\ vout = NoValidation
    /\ ExtInit
    /\ din = NoCalculation
    /\ solverIn = NoCall
    /\ fillIn = NoFillRequest
    /\ env \in Envs

BootNext ==
    \/ loadConfig
    \/ validateAtStartup
    \/ serveExecute

SpecBoot == BootInit /\ [][BootNext]_vars

(* ------------------ engine instances on a shared store ----------------- *)
\* Several ExecutionEngine instances, each in its own process, built on one
\* Database.  A call of the store is one step; the steps of different instances
\* interleave.  The requests are paper requests of a valid size.
Instances == 1..Len(engines)

\* new ExecutionEngine(config, db, log)
construct ==
    /\ Len(engines) < MaxInstances
    /\ engines' = Append(engines, [pc |-> "idle", key |-> 0, trade |-> 0,
                                   status |-> "none", calls |-> 0])
    /\ UNCHANGED << store, notShared >>

\* execute(params) is called on instance i
sharedCall(i, key) ==
    /\ engines[i].pc = "idle"
    /\ engines[i].calls < MaxCalls
    /\ engines' = [engines EXCEPT ![i] = [pc |-> "check", key |-> key, trade |-> 0,
                                          status |-> "none",
                                          calls |-> engines[i].calls + 1]]
    /\ UNCHANGED << store, notShared >>

\* lines 199-207: the idempotency check
sharedCheck(i) ==
    /\ engines[i].pc = "check"
    /\ engines' = [engines EXCEPT ![i] =
                       IF checkIdempotencyKey(store, engines[i].key)
                       THEN [@ EXCEPT !.pc = "idle", !.status = "duplicate"]
                       ELSE [@ EXCEPT !.pc = "insert"]]
    /\ UNCHANGED << store, notShared >>

\* lines 219-234: this.db.insertTrade(trade), on a store that accepts the row
sharedInsert(i) ==
    /\ engines[i].pc = "insert"
    /\ store' = insertTrade(store, [ id |-> Len(store) + 1, size_usdt |-> 1,
                                     mode |-> "paper", status |-> "pending",
                                     idempotency_key |-> engines[i].key ])
    /\ engines' = [engines EXCEPT ![i] = [@ EXCEPT !.pc = "dispatch",
                                                   !.trade = Len(store) + 1]]
    /\ UNCHANGED notShared

\* this.db.insertTrade(trade) on a store that refuses a second row with the same key:
\* the exception leaves execute()
sharedInsertRefused(i) ==
    /\ engines[i].pc = "insert"
    /\ checkIdempotencyKey(store, engines[i].key)
    /\ engines' = [engines EXCEPT ![i] = [@ EXCEPT !.pc = "idle", !.status = "error"]]
    /\ UNCHANGED << store, notShared >>

\* lines 245-247 and executePaper: the fill
sharedFill(i) ==
    /\ engines[i].pc = "dispatch"
    /\ store' = updateTradeStatus(store, engines[i].trade, "filled")
    /\ engines' = [engines EXCEPT ![i] = [@ EXCEPT !.pc = "idle", !.status = "filled"]]
    /\ UNCHANGED notShared

SharedInit ==
    /\ EngineInit
    /\ config.EXECUTION_MODE = "paper"
    /\ ~config.KILL_SWITCH
    /\ vin = NoInput
    /\ vout = NoValidation
    /\ ExtInit
    /\ din = NoCalculation
    /\ NoCalls

SharedNext ==
    \/ construct
    \/ \E i \in Instances, key \in Keys : sharedCall(i, key)
    \/ \E i \in Instances : sharedCheck(i)
    \/ \E i \in Instances : sharedInsert(i)
    \/ \E i \in Instances : sharedInsertRefused(i)
    \/ \E i \in Instances : sharedFill(i)

SpecShared == SharedInit /\ [][SharedNext]_vars

(* ------------------- market.data: producers and consumer --------------- *)
\* A message on the stream: the JSON object a producer serialised.  bid, ask,
\* last and price are 0 when the object has no such field; ts is a number
\* (Date.now()) or a string (toISOString()); prices are in units of 0.0001 USDT.
numberTs == [k |-> "number", v |-> 0]
stringTs == [k |-> "string", v |-> 0]

\* The ticker events of the LBank client
LBankEvents == { [bid |-> 122, ask |-> 123, last |-> 123],
                 [bid |-> 127, ask |-> 128, last |-> 128] }

\* pools of the polling loop, and the price it publishes
pools == {"CSR/USDT", "CSR25/USDT"}
placeholderPrice == 125

\* lbank-gateway: lbankClient.on('ticker') and its publishTick
publishLBankTick(event) ==
    /\ Len(feed) < MaxFeed
    /\ feed' = Append(feed,
          [ field |-> "data",
            value |-> [ type |-> "market.tick", symbol |-> "CSR/USDT", venue |-> "lbank",
                        ts |-> numberTs, bid |-> event.bid, ask |-> event.ask,
                        last |-> event.last, price |-> 0,
                        effective_price_usdt |-> 0 ] ])
    /\ UNCHANGED << consumed, accepted, arbitrageVars, notFeedNorBook >>

\* uniswap-quote: one turn of the polling loop for one pool
pollPool(pool) ==
    /\ Len(feed) < MaxFeed
    /\ feed' = Append(feed,
          [ field |-> "data",
            value |-> [ type |-> "market.tick", symbol |-> pool, venue |-> "uniswap_v4",
                        ts |-> numberTs, bid |-> 0, ask |-> 0, last |-> 0,
                        price |-> placeholderPrice, effective_price_usdt |-> 0 ] ])
    /\ UNCHANGED << consumed, accepted, arbitrageVars, notFeedNorBook >>

\* uniswap-quote: publishTick(symbol, data) of the pool-state poller
publishTick(symbol, price) ==
    /\ Len(feed) < MaxFeed
    /\ feed' = Append(feed,
          [ field |-> "payload",
            value |-> [ type |-> "dex_quote",
                        symbol |-> IF symbol = "CSR" THEN "csr/usdt" ELSE "csr25/usdt",
                        venue |-> "uniswap_v4", ts |-> stringTs,
                        bid |-> 0, ask |-> 0, last |-> 0, price |-> 0,
                        effective_price_usdt |-> price ] ])
    /\ UNCHANGED << consumed, accepted, arbitrageVars, notFeedNorBook >>

\* The consumer's search of the entry's fields for 'data'
hasData(entry) == entry.field = "data"

\* BusMessageSchema.parse(raw) succeeds, for the messages of these producers:
\* the type is one of the union and the fields have the types of its schema
BusMessageSchema(raw) ==
    /\ raw.type = "market.tick"
    /\ raw.ts.k = "number"

\* The MarketTick that parsing gives
parsed(raw) ==
    [ symbol |-> raw.symbol, venue |-> raw.venue, ts |-> raw.ts.v,
      bid |-> raw.bid, ask |-> raw.ask, last |-> raw.last ]

\* The consumer goes through the next entry of the stream: an entry without
\* 'data' or that does not parse is acknowledged and skipped, a market.tick is
\* given to onMarketTick and acknowledged
consumeMessage ==
    /\ consumed < Len(feed)
    /\ consumed' = consumed + 1
    /\ LET entry == feed[consumed + 1]
       IN IF hasData(entry) /\ BusMessageSchema(entry.value)
             THEN /\ accepted' = accepted \cup {consumed + 1}
                  /\ onMarketTick(parsed(entry.value))
             ELSE UNCHANGED << accepted, arbitrageVars >>
    /\ UNCHANGED << feed, notFeedNorBook >>

FeedNext ==
    \/ \E event \in LBankEvents : publishLBankTick(event)
    \/ \E pool \in pools : pollPool(pool)
    \/ \E symbol \in {"CSR", "CSR25"}, price \in {125, 130} : publishTick(symbol, price)
    \/ consumeMessage

SpecFeed == ArbitrageInit /\ [][FeedNext]_vars

(* ============================== properties ============================= *)
KeySeen(db, key) == \E i \in 1..Len(db) : db[i].idempotency_key = key

RECURSIVE FilledVolume(_, _)
FilledVolume(db, n) ==
    IF n = 0 THEN 0
    ELSE FilledVolume(db, n - 1) + (IF db[n].status = "filled" THEN db[n].size_usdt ELSE 0)

\* The five gates of the validation, in the order of the specification
GateFails(i, cfg, d, vol, n) ==
    CASE i = 1 -> cfg.KILL_SWITCH
      [] i = 2 -> cfg.EXECUTION_MODE = "off"
      [] i = 3 -> d.edge_after_costs_bps < cfg.MIN_EDGE_BPS
      [] i = 4 -> vol + d.suggested_size_usdt > cfg.MAX_DAILY_VOLUME_USDT
      [] i = 5 -> n >= cfg.MAX_CONCURRENT_ORDERS

GateReason ==
    << "Kill switch is active", "Execution mode is off", "Edge below threshold",
       "Daily volume limit exceeded", "Max concurrent orders reached" >>

FailingGates(cfg, d, vol, n) == { i \in 1..5 : GateFails(i, cfg, d, vol, n) }

\* C1: two execute() calls with the same idempotency_key leave exactly one
\* TradeRecord: no two records of the store share a key, and a call whose key
\* is already in the store returns 'duplicate', creates no record and does not
\* touch activeOrders.
C1_OneRecordPerKey ==
    [][ /\ \A i, j \in 1..Len(trades') :
             trades'[i].idempotency_key = trades'[j].idempotency_key => i = j
        /\ (pc = "execute" /\ KeySeen(trades, req.idempotency_key))
             => /\ result'.status = "duplicate"
                /\ trades' = trades
                /\ activeOrders' = activeOrders ]_vars

\* C1 witness: a second call with the key of a stored record has returned 'duplicate'
C1_Witness ==
    /\ pc = "idle"
    /\ result.status = "duplicate"
    /\ KeySeen(trades, req.idempotency_key)

\* C2: with KILL_SWITCH = true no TradeRecord is ever pending and activeOrders
\* stays empty, for every entry point.
C2_KillSwitchNoPending ==
    config.KILL_SWITCH =>
        /\ activeOrders = {}
        /\ \A i \in 1..Len(trades) : trades[i].status # "pending"

\* C3: a StrategyDecision message delivered more than once creates at most one
\* trade.
C3_OneTradePerDecision ==
    \A i, j \in 1..Len(trades) : (origin[i] # 0 /\ origin[i] = origin[j]) => i = j

\* C4: a TradeRecord is only ever changed by a status change from 'pending' to
\* 'filled' or 'failed'; records are never removed; a duplicate request adds no
\* record.
C4_StatusTransitions ==
    [][ /\ Len(trades') >= Len(trades)
        /\ \A i \in 1..Len(trades) :
              \/ trades'[i] = trades[i]
              \/ /\ trades[i].status = "pending"
                 /\ \E st \in {"filled", "failed"} :
                       trades'[i] = [trades[i] EXCEPT !.status = st]
        /\ (pc = "execute" /\ result'.status = "duplicate") => trades' = trades ]_vars

\* C4 witness: a record is terminal and a later execute() has inserted another one
C4_Witness ==
    /\ Len(trades) >= 2
    /\ trades[1].status \in {"filled", "failed"}
    /\ trades[2].status \in {"filled", "failed"}

\* C5: in paper mode the step that follows the insertion of a PENDING record ends
\* the call with that record 'filled' and out of activeOrders, and whenever the
\* engine is idle no paper order is pending or active.
C5_PaperFills ==
    [][ /\ (pc = "dispatch" /\ config.EXECUTION_MODE = "paper")
             => /\ pc' = "idle"
                /\ trades'[cur].status = "filled"
                /\ cur \notin activeOrders'
                /\ result'.status = "filled"
        /\ (pc' = "idle" /\ config.EXECUTION_MODE = "paper")
             => /\ activeOrders' = {}
                /\ \A i \in 1..Len(trades') : trades'[i].status = "filled" ]_vars

\* C5 witness: a paper execute() has returned 'filled' with nothing left active
C5_Witness ==
    /\ pc = "idle"
    /\ config.EXECUTION_MODE = "paper"
    /\ result.status = "filled"
    /\ trades[result.trade_id].status = "filled"
    /\ activeOrders = {}

\* C6 (as stated): execute() with size_usdt > MAX_ORDER_USDT always returns
\* 'rejected' and leaves the store and activeOrders unchanged.
C6_AlwaysRejected ==
    [][ (pc = "execute" /\ req.size_usdt > config.MAX_ORDER_USDT)
          => /\ result'.status = "rejected"
             /\ trades' = trades
             /\ activeOrders' = activeOrders ]_vars

\* C6 (amended): execute() with size_usdt > MAX_ORDER_USDT never creates a record
\* and never touches activeOrders, whatever edge_bps is; it returns 'rejected'
\* with the size reason when its idempotency key is new, and 'duplicate' when the
\* key is already in the store.
C6_OversizeNeverAccepted ==
    [][ (pc = "execute" /\ req.size_usdt > config.MAX_ORDER_USDT)
          => /\ trades' = trades
             /\ activeOrders' = activeOrders
             /\ pc' = "idle"
             /\ IF KeySeen(trades, req.idempotency_key)
                  THEN result'.status = "duplicate"
                  ELSE /\ result'.status = "rejected"
                       /\ result'.message = "Order size exceeds max" ]_vars

\* C6 witness: an oversize request was rejected while the store held a record
C6_Witness ==
    /\ pc = "idle"
    /\ result.status = "rejected"
    /\ result.message = "Order size exceeds max"
    /\ req.size_usdt > config.MAX_ORDER_USDT
    /\ Len(trades) >= 1

\* C7: a request that would push the daily volume over MAX_DAILY_VOLUME_USDT
\* creates no record, through either entry point, and the volume filled in the
\* day never exceeds MAX_DAILY_VOLUME_USDT.
C7_DailyVolumeCap ==
    [][ /\ (pc = "execute" /\ FilledVolume(trades, Len(trades)) + req.size_usdt
                                  > config.MAX_DAILY_VOLUME_USDT)
             => trades' = trades
        /\ FilledVolume(trades', Len(trades')) <= config.MAX_DAILY_VOLUME_USDT ]_vars

\* C8: a request whose idempotency_key is already in the store and whose
\* size_usdt exceeds MAX_ORDER_USDT returns 'duplicate', not 'rejected', and
\* creates no record.
C8_DuplicateBeforeSize ==
    [][ (pc = "execute" /\ KeySeen(trades, req.idempotency_key)
                        /\ req.size_usdt > config.MAX_ORDER_USDT)
          => /\ result'.status = "duplicate"
             /\ result'.status # "rejected"
             /\ Len(trades') = Len(trades) ]_vars

\* C8 witness: an oversize request with a stored key has returned 'duplicate'
C8_Witness ==
    /\ pc = "idle"
    /\ result.status = "duplicate"
    /\ req.size_usdt > config.MAX_ORDER_USDT
    /\ KeySeen(trades, req.idempotency_key)

\* C9: the result of validateExecution is valid exactly when none of the five
\* gates (kill switch, mode off, edge, daily volume, concurrent orders) fails,
\* and otherwise carries the reason of the first failing gate in that order.
C9_FirstFailingGate ==
    vout # NoValidation =>
        LET F == FailingGates(config, vin.decision, vin.dailyVolume, vin.activeCount)
        IN /\ vout.valid <=> (F = {})
           /\ F # {} => \E i \in F : /\ \A j \in F : i <= j
                                     /\ vout.reason = GateReason[i]
           /\ F = {} => vout.reason = "ok"

\* C9 witness: the daily-volume gate and the concurrent-order gate both fail and
\* the reason is the daily volume's
C9_Witness ==
    /\ vout.reason = "Daily volume limit exceeded"
    /\ vin.activeCount >= config.MAX_CONCURRENT_ORDERS
    /\ ~vout.valid

\* C10: every evaluateAndExecute call appends one DecisionRecord mirroring the
\* decision, with executed = false; it calls execute exactly when would_trade
\* is true and every validation gate passes, with size
\* min(suggested_size_usdt, MAX_ORDER_USDT) and the decision's edge.
C10_EvaluateAndExecute ==
    [][ evalCalls' # evalCalls
          => /\ Len(decisionRecords') = Len(decisionRecords) + 1
             /\ SubSeq(decisionRecords', 1, Len(decisionRecords)) = decisionRecords
             /\ LET r == decisionRecords'[Len(decisionRecords')]
                IN /\ r.would_trade = arg'.would_trade
                   /\ r.edge_after_costs_bps = arg'.edge_after_costs_bps
                   /\ r.suggested_size_usdt = arg'.suggested_size_usdt
                   /\ r.executed = FALSE
             /\ (pc' = "execute") <=>
                   ( /\ arg'.would_trade
                     /\ FailingGates(config, arg', FilledVolume(trades, Len(trades)),
                                     Cardinality(activeOrders)) = {} )
             /\ pc' = "execute" =>
                   /\ req'.size_usdt <= arg'.suggested_size_usdt
                   /\ req'.size_usdt <= config.MAX_ORDER_USDT
                   /\ req'.size_usdt \in {arg'.suggested_size_usdt, config.MAX_ORDER_USDT}
                   /\ req'.edge_bps = arg'.edge_after_costs_bps
             /\ trades' = trades ]_vars

\* C10 witness: an accepted decision larger than MAX_ORDER_USDT has been recorded
\* and execute called with the clamped size
C10_Witness ==
    /\ pc = "execute"
    /\ req.msg # 0
    /\ arg.suggested_size_usdt > config.MAX_ORDER_USDT
    /\ req.size_usdt = config.MAX_ORDER_USDT
    /\ Len(decisionRecords) = evalCalls

\* C11: in live mode with LBANK_API_KEY or LBANK_API_SECRET missing, the step
\* that follows the insertion of a PENDING record ends the call with that
\* record 'failed', out of activeOrders and a missing-credentials message; no
\* record is ever 'filled', and a failed record is never changed again (no retry).
C11_LiveWithoutCredentials ==
    [][ (config.EXECUTION_MODE = "live"
           /\ (~config.LBANK_API_KEY \/ ~config.LBANK_API_SECRET))
          => /\ pc = "dispatch"
                  => /\ pc' = "idle"
                     /\ trades'[cur].status = "failed"
                     /\ cur \notin activeOrders'
                     /\ result'.status = "failed"
                     /\ result'.trade_id = cur
                     /\ result'.message = "Missing LBank API credentials"
             /\ \A i \in 1..Len(trades') : trades'[i].status # "filled"
             /\ \A i \in 1..Len(trades) :
                   trades[i].status = "failed" => trades'[i] = trades[i] ]_vars

\* C11 witness: a live order without the API secret has failed for missing
\* credentials and a later call has left its record alone
C11_Witness ==
    /\ pc = "idle"
    /\ config.EXECUTION_MODE = "live"
    /\ config.LBANK_API_KEY /\ ~config.LBANK_API_SECRET
    /\ calls = 2
    /\ Len(trades) >= 1
    /\ trades[1].status = "failed"
    /\ result.message = "Missing LBank API credentials"
    /\ activeOrders = {}

\* C12: the Paper Ledger holds exactly one row per paper fill: the number of
\* ledger rows equals the number of paper trades in status 'filled'.
C12_LedgerRowPerFill ==
    Len(ledger) = Cardinality({ i \in 1..Len(trades) :
                                  trades[i].mode = "paper" /\ trades[i].status = "filled" })

\* C13: the ledger holds at most one row per decision_id.
C13_OneRowPerDecision ==
    \A i, j \in 1..Len(ledger) :
        ledger[i].decision_id = ledger[j].decision_id => i = j

\* C14: every entry delivered to the consumer is eventually acknowledged.
C14_DeliveredEventuallyAcked ==
    \A id \in 1..(MaxStream + 1) :
        (id <= lastDelivered) ~> (id <= lastDelivered /\ id \notin pel)

\* C15: a failed bus call is logged and followed by the backoff or by the
\* acknowledgement of the catch block, never by the end of the loop, and the
\* consumer polls again and again.
C15_ConsumerSurvivesBusFailure ==
    /\ [][ fails' # fails
             => /\ clog' \in {"consume_error", "message_failed"}
                /\ cpc' \in {"backoff", "ackCatch"}
                /\ cpc \in {"read", "ackNoData", "ackCatch"} => cpc' = "backoff" ]_vars
    /\ []<>(cpc = "read")

C15_Witness ==
    /\ fails >= 2
    /\ clog = "consume_error"
    /\ cpc = "read"
    /\ lastDelivered >= 1

\* C19 as stated: on the values the decision carries, edge_after_costs_bps is
\* raw_spread_bps - estimated_cost_bps, and would_trade is true exactly when
\* edge_after_costs_bps >= MIN_EDGE_BPS and the direction is not 'none'.
C19_CarriedValuesExact ==
    dout # NoCalculation
    => /\ dout.edge_after_costs_bps = dout.raw_spread_bps - dout.estimated_cost_bps
       /\ dout.would_trade <=> /\ dout.edge_after_costs_bps >= Bps(din.cfg.MIN_EDGE_BPS)
                               /\ dout.direction # "none"

\* C19 amended: the three values are rounded to two decimals one by one, so
\* the edge carried is within 0.01 of raw - cost as carried; would_trade
\* implies edge >= MIN_EDGE_BPS and a direction, and a decision that has a
\* direction and would not trade carries an edge of MIN_EDGE_BPS at most.
C19_CarriedValuesRounded ==
    dout # NoCalculation
    => LET diff == dout.edge_after_costs_bps
                     - (dout.raw_spread_bps - dout.estimated_cost_bps)
       IN /\ diff \in {-10, 0, 10}
          /\ dout.would_trade => /\ dout.edge_after_costs_bps >= Bps(din.cfg.MIN_EDGE_BPS)
                                 /\ dout.direction # "none"
          /\ (~dout.would_trade /\ dout.direction # "none")
                => dout.edge_after_costs_bps <= Bps(din.cfg.MIN_EDGE_BPS)
          /\ dout.direction = "none" => ~dout.would_trade

\* a decision whose carried edge equals the threshold and that would not trade
C19_Witness ==
    /\ dout # NoCalculation
    /\ dout.direction = "buy_cex_sell_dex"
    /\ dout.edge_after_costs_bps = Bps(din.cfg.MIN_EDGE_BPS)
    /\ ~dout.would_trade
    /\ dout.estimated_cost_bps > 0

\* The same questions asked of StrategyEngine.evaluateMarket, under SpecStrategy
LbankFresh == state.lbankTicker # NoTicker /\ now - state.lastLbankUpdate < maxStaleness
LatokenFresh == state.latokenTicker # NoTicker /\ now - state.lastLatokenUpdate < maxStaleness
UniswapFresh == state.uniswapQuote # NoQuote /\ now - state.lastUniswapUpdate < maxStaleness
UniswapValid ==
    ~state.uniswapQuote.error /\ state.uniswapQuote.validated /\ state.uniswapQuote.real
MarketEvaluated == now' = now /\ << state, sout >>' # << state, sout >>

\* evaluateMarket takes LBank's ticker whenever it is fresh, and Latoken's
\* exactly when LBank's is not and Latoken's is (holds)
EvaluateMarket_PreferredCexVenue ==
    [][ MarketEvaluated
          => /\ LbankFresh' => sout'.cex = "lbank.ticker"
             /\ sout'.cex = "latoken.ticker" <=> (~LbankFresh' /\ LatokenFresh') ]_vars

\* evaluateMarket emits one decision from complete, fresh and valid inputs (holds)
EvaluateMarket_OneDecision ==
    [][ (MarketEvaluated /\ (LbankFresh' \/ LatokenFresh') /\ UniswapFresh' /\ UniswapValid')
          => sout'.decisions = 1 ]_vars

\* evaluateMarket emits no decision unless both sides are fresher than the
\* limit (violated by a quote whose age equals the limit)
EvaluateMarket_NoDecisionFromStale ==
    [][ (MarketEvaluated /\ ~((LbankFresh' \/ LatokenFresh') /\ UniswapFresh'))
          => sout'.decisions = 0 ]_vars

\* The state of venue v in the order book is present and fresher than the limit
Fresh(v) ==
    /\ orderBook["CSR/USDT"][v] # NoState
    /\ now - orderBook["CSR/USDT"][v].ts < maxStaleness

\* C16: an evaluation whose CEX-side or DEX-side state is missing or not
\* fresher than the staleness limit emits no request and logs a reason.
C16_NoEmissionFromStaleState ==
    [][ (now' = now /\ aout'.evaluated
           /\ ~((Fresh("lbank")' \/ Fresh("latoken")') /\ Fresh("uniswap_v4")'))
          => /\ aout'.requests = << >>
             /\ aout'.log # "none" ]_vars

\* C17: the CEX state an evaluation uses is LBank's whenever that is present
\* and fresh, and Latoken's exactly when LBank's is missing or stale and
\* Latoken's is present and fresh.
C17_PreferredCexVenue ==
    [][ (now' = now /\ aout'.used)
          => /\ Fresh("lbank")' => aout'.cex = "lbank"
             /\ aout'.cex = "latoken" <=> (~Fresh("lbank")' /\ Fresh("latoken")') ]_vars

\* C18: an evaluation with complete and fresh inputs emits exactly one decision.
C18_OneDecisionPerEvaluation ==
    [][ (now' = now /\ aout'.evaluated
           /\ (Fresh("lbank")' \/ Fresh("latoken")') /\ Fresh("uniswap_v4")')
          => Len(aout'.requests) = 1 ]_vars

\* The spread of buying at buyAt and selling at sellAt is positive and
\* exceeds minEdgeBps basis points
Qualifies(buyAt, sellAt, minEdgeBps) ==
    /\ buyAt # 0 /\ sellAt # 0
    /\ sellAt > buyAt
    /\ (sellAt - buyAt) * 10000 > minEdgeBps * buyAt

\* The one direction C20 selects from the order book, as a sequence of at
\* most one element
SelectedDirection(venues, cexVenue, minEdgeBps) ==
    LET cex == venues[cexVenue]
        dex == venues["uniswap_v4"]
        cexAsk == Or(cex.ask, cex.last)
        cexBid == Or(cex.bid, cex.last)
        dexBid == Or(dex.bid, dex.last)
        dexAsk == Or(dex.ask, dex.last)
        q1 == Qualifies(cexAsk, dexBid, minEdgeBps)
        q2 == Qualifies(dexAsk, cexBid, minEdgeBps)
        firstLarger == (dexBid - cexAsk) * dexAsk > (cexBid - dexAsk) * cexAsk
    IN IF q1 /\ (~q2 \/ firstLarger) THEN << "buy_cex_sell_dex" >>
       ELSE IF q2 THEN << "buy_dex_sell_cex" >>
       ELSE << >>

\* C20: an evaluation selects the direction whose spread is positive and
\* exceeds the minimum edge, the single larger one when both do, and none
\* when neither does.
C20_SingleDirection ==
    [][ (now' = now /\ aout'.used)
          => aout'.requests = SelectedDirection(orderBook'["CSR/USDT"], aout'.cex, 50) ]_vars


(* ---------------------------------------------------------------------- *)
(* C23: classifyBand returns 'neutral' when |deviationPercent| is at most  *)
(* neutralPercent, 'soft' when it is above neutralPercent and at most      *)
(* softPercent, and 'hard' otherwise: a deviation on a boundary belongs to *)
(* the lower band, and the sign of the deviation does not matter.          *)
(* ---------------------------------------------------------------------- *)
C23_BandBoundaries ==
    solverOut.fn = "classifyBand" =>
        LET d == solverIn.deviationPercent
            magnitude == IF d.v < 0 THEN -d.v ELSE d.v
            neutral == solverIn.config.bands.neutralPercent.v
            soft == solverIn.config.bands.softPercent.v
        IN  solverOut.bandStatus =
                IF d.k = "num" /\ magnitude <= neutral THEN "neutral"
                ELSE IF d.k = "num" /\ magnitude <= soft THEN "soft"
                ELSE "hard"

\* a negative deviation exactly on the neutral boundary is classified neutral
C23_Witness ==
    /\ solverOut.fn = "classifyBand"
    /\ solverIn.deviationPercent = Thousandths(-500)
    /\ solverIn.config.bands.neutralPercent = Thousandths(500)
    /\ solverOut.bandStatus = "neutral"

(* ---------------------------------------------------------------------- *)
(* C21: computeSuggestion checks, in this order, the neutral band, the     *)
(* cooldown, the net benefit, the soft band and the hard band.  shouldTrade*)
(* is true exactly when the band is 'hard', the cooldown is inactive and   *)
(* netBenefitBps >= minBenefitBps.  A neutral band gives no trade, a       *)
(* reason that mentions the neutral band and blocked = false even while    *)
(* the cooldown is active; an active cooldown outside the neutral band     *)
(* gives blocked = true with blockReason 'cooldown' whatever the benefit.  *)
(* ---------------------------------------------------------------------- *)
\* netBenefitBps >= minBenefitBps, as numbers
BenefitSuffices(benefit, cfg) ==
    \/ benefit.netBenefitBps = Infinity
    \/ benefit.netBenefitBps.k = "num" /\ benefit.netBenefitBps.v >= cfg.minBenefitBps.v

C21_SuggestionOrder ==
    solverOut.fn = "computeAlignmentDecision" =>
        LET band == solverOut.decision.prices.bandStatus
            inCooldown == solverOut.decision.cooldown.inCooldown
            suggestion == solverOut.decision.suggestion
            suffices == BenefitSuffices(suggestion.benefit, solverIn.config)
        IN  /\ suggestion.shouldTrade <=> (band = "hard" /\ ~inCooldown /\ suffices)
            /\ band = "neutral" =>
                   /\ suggestion.reason = "Price within neutral band - no action needed"
                   /\ ~suggestion.blocked
            /\ (band # "neutral" /\ inCooldown) =>
                   /\ suggestion.blocked
                   /\ suggestion.blockReason = "cooldown"
            /\ (band # "neutral" /\ ~inCooldown /\ ~suffices) =>
                   suggestion.reason = "Uneconomical"
            /\ (band = "soft" /\ ~inCooldown /\ suffices) =>
                   suggestion.reason = "Soft deviation - trade optional"

(* ---------------------------------------------------------------------- *)
(* C22: with cexPrice = 0 comparePrices fails safely: the comparison it    *)
(* returns carries no result of a division by zero (no Infinity, no NaN),  *)
(* and the suggestion computed from it never has shouldTrade = true.       *)
(* ---------------------------------------------------------------------- *)
C22_ZeroCexPriceSafe ==
    (solverOut.fn = "computeAlignmentDecision" /\ solverIn.cexPrice = Whole(0)) =>
        /\ solverOut.decision.prices.deviationPercent.k = "num"
        /\ solverOut.decision.prices.deviationBps.k = "num"
        /\ ~solverOut.decision.suggestion.shouldTrade

(* ---------------------------------------------------------------------- *)
(* C24: interpolateQuoteLadder works on the valid entries in order of      *)
(* size.  When the target price lies between the prices of two adjacent    *)
(* entries, in either direction, it returns achievable = true and the size *)
(* linearly interpolated between them, a size within their range of sizes. *)
(* When no two adjacent entries bracket the target it returns the size of  *)
(* the endpoint nearest in price with achievable = false, and with no      *)
(* valid entry it returns size 0 with achievable = false.                  *)
(* ---------------------------------------------------------------------- *)
Distance(a, b) == IF a >= b THEN a - b ELSE b - a

ValidOf(ladder) == { ladder[i] : i \in { j \in 1..Len(ladder) : ladder[j].valid } }

\* a comes right before b among the valid entries in order of size
Adjacent(a, b, valid) ==
    /\ a.amountInUSDT.v < b.amountInUSDT.v
    /\ ~\E c \in valid : /\ a.amountInUSDT.v < c.amountInUSDT.v
                         /\ c.amountInUSDT.v < b.amountInUSDT.v

Between(a, b, t) ==
    \/ a.price_usdt_per_token.v <= t.v /\ t.v <= b.price_usdt_per_token.v
    \/ a.price_usdt_per_token.v >= t.v /\ t.v >= b.price_usdt_per_token.v

\* size is the linear interpolation between a and b at price t, to a thousandth of
\* the step of sizes
Interpolates(size, a, b, t) ==
    LET rise == Distance(b.price_usdt_per_token.v, a.price_usdt_per_token.v)
        part == Distance(t.v, a.price_usdt_per_token.v)
        step == b.amountInUSDT.v - a.amountInUSDT.v
    IN  /\ size.k = "num"
        /\ a.amountInUSDT.v <= size.v
        /\ size.v <= b.amountInUSDT.v
        /\ (size.v - a.amountInUSDT.v) * rise <= part * step
        /\ part * step <= (size.v - a.amountInUSDT.v) * rise + (rise * step) \div 1000

C24_Interpolation ==
    solverOut.fn = "interpolateQuoteLadder" =>
        LET valid == ValidOf(solverIn.ladder)
            t == solverIn.targetPrice
            pairs == { p \in valid \X valid :
                           Adjacent(p[1], p[2], valid) /\ Between(p[1], p[2], t) }
            ends == { q \in valid : \/ \A c \in valid : q.amountInUSDT.v <= c.amountInUSDT.v
                                    \/ \A c \in valid : q.amountInUSDT.v >= c.amountInUSDT.v }
            nearest == { q \in ends :
                             \A c \in ends :
                                 Distance(q.price_usdt_per_token.v, t.v)
                                     <= Distance(c.price_usdt_per_token.v, t.v) }
            returned == solverOut.result
        IN  IF valid = {} THEN returned = [size |-> Whole(0), achievable |-> FALSE]
            ELSE IF pairs # {}
            THEN /\ returned.achievable
                 /\ \E p \in pairs : Interpolates(returned.size, p[1], p[2], t)
            ELSE /\ ~returned.achievable
                 /\ \E q \in nearest : returned.size = q.amountInUSDT

(* ---------------------------------------------------------------------- *)
(* C25: checkCooldown returns remaining = max(0, cooldownSeconds -         *)
(* elapsedSeconds) and inCooldown = remaining > 0: a trade 60 s ago with a *)
(* cooldown of 120 s gives inCooldown = true and 60 s remaining; once      *)
(* cooldownSeconds have elapsed inCooldown is false, and it stays false as *)
(* time advances.  A null lastTradeTs gives inCooldown = false and         *)
(* remaining = 0.                                                          *)
(* ---------------------------------------------------------------------- *)
\* seconds since the trade, in thousandths, for a call made at tick `at`
ElapsedSince(lastTradeTs, at) == DateNow(at).v \div 1000 - lastTradeTs.v \div 1000

C25_CooldownNow ==
    solverOut.fn = "checkCooldown" =>
        LET cooldown == solverOut.cooldown
            left == solverIn.cooldownSeconds.v
                        - ElapsedSince(solverIn.lastTradeTs, solverOut.at)
        IN  IF solverIn.lastTradeTs = Null
            THEN ~cooldown.inCooldown /\ cooldown.cooldownRemaining = Whole(0)
            ELSE /\ cooldown.cooldownRemaining = Thousandths(IF left > 0 THEN left ELSE 0)
                 /\ cooldown.inCooldown <=> left > 0

C25_CooldownStaysOver ==
    (solverOut.fn = "checkCooldown" /\ ~solverOut.cooldown.inCooldown)
        => ~solverOut'.cooldown.inCooldown

C25_Cooldown == [] C25_CooldownNow /\ [][C25_CooldownStaysOver]_vars

\* a trade 60 s ago with a cooldown of 120 s: in cooldown, 60 s remaining
C25_Witness ==
    /\ solverOut.fn = "checkCooldown"
    /\ solverIn.lastTradeTs = DateNow(0)
    /\ solverIn.cooldownSeconds = Whole(120)
    /\ solverOut.at = 1
    /\ solverOut.cooldown.inCooldown
    /\ solverOut.cooldown.cooldownRemaining = Whole(60)

(* ---------------------------------------------------------------------- *)
(* C26: a paper fill reached through execute() computes its PnL from the   *)
(* dex_price and cex_price of the request whenever both are positive, net  *)
(* of the request's LP fee and of the fixed gas estimate; the edge-bps     *)
(* approximation is used only when a real price is missing.                *)
(* ---------------------------------------------------------------------- *)
C26_RealPricesUsed ==
    (/\ fillOut.entry = "execute"
     /\ fillIn.params.dex_price > 0
     /\ fillIn.params.cex_price > 0) =>
        /\ fillOut.fill.dex_price = fillIn.params.dex_price
        /\ fillOut.fill.cex_price = fillIn.params.cex_price
        /\ fillIn.params.lp_fee_bps > 0 =>
               fillOut.fill.lp_fee_bps = fillIn.params.lp_fee_bps

(* ---------------------------------------------------------------------- *)
(* C27: for buy_dex_sell_cex with dexPrice 1.00, cexPrice 1.02, size 1000  *)
(* and lpFeeBps 30 the net PnL is 16.5 USDT, within the tolerance of the   *)
(* 0-5 bps jitter (1 USDT on this size: 5 bps on each of the two legs).    *)
(* ---------------------------------------------------------------------- *)
PaperFillExample ==
    /\ fillOut.entry = "executePaper"
    /\ fillIn.params = [ direction |-> "buy_dex_sell_cex", size_usdt |-> 1000,
                         edge_bps |-> 200, dex_price |-> 100, cex_price |-> 102,
                         lp_fee_bps |-> 30 ]

C28_KillSwitchDefaultsActive ==
    (boot.pc = "loaded" /\ env.KILL_SWITCH # <<"false">>) => boot.config.KILL_SWITCH

(* ---------------------------------------------------------------------- *)
(* C29: with EXECUTION_MODE = live and LBANK_API_KEY or LBANK_API_SECRET   *)
(* missing, the validation made at startup is invalid and its errors name  *)
(* each missing credential, so that no execute() call is served by a live  *)
(* engine without credentials; for the other modes the validation passes.  *)
(* ---------------------------------------------------------------------- *)
Names(errors, text) == \E i \in 1..Len(errors) : errors[i] = text

C29_LiveNeedsCredentialsAtStartup ==
    /\ (boot.pc \in {"serving", "exited"} /\ boot.at = "validateLiveMode") =>
           LET live == boot.config.EXECUTION_MODE = "live"
               noKey == boot.config.LBANK_API_KEY \in { << >>, <<"">> }
               noSecret == boot.config.LBANK_API_SECRET \in { << >>, <<"">> }
           IN  /\ (live /\ (noKey \/ noSecret)) => ~boot.validation.valid
               /\ (live /\ noKey) =>
                      Names(boot.validation.errors,
                            "LBANK_API_KEY is required for live mode")
               /\ (live /\ noSecret) =>
                      Names(boot.validation.errors,
                            "LBANK_API_SECRET is required for live mode")
               /\ ~live => boot.validation = [valid |-> TRUE, errors |-> << >>]
    /\ (boot.pc = "serving" /\ boot.config.EXECUTION_MODE = "live") =>
           /\ boot.config.LBANK_API_KEY \notin { << >>, <<"">> }
           /\ boot.config.LBANK_API_SECRET \notin { << >>, <<"">> }

\* live mode with the key set and the secret missing: the startup stops on the error
\* that names the secret
C29_Witness ==
    /\ boot.pc = "exited"
    /\ boot.at = "validateLiveMode"
    /\ boot.config.EXECUTION_MODE = "live"
    /\ boot.config.LBANK_API_KEY = <<"key">>
    /\ boot.validation.errors = << "LBANK_API_SECRET is required for live mode" >>

(* ---------------------------------------------------------------------- *)
(* C30: with several engine instances on one trade store and no lock, for  *)
(* every interleaving of execute() calls with the same idempotency key on  *)
(* different instances, at most one TradeRecord with that key exists and   *)
(* every other call returns 'duplicate'.                                   *)
(* ---------------------------------------------------------------------- *)
C30_OneRecordPerKey ==
    /\ \A k \in Keys :
           Cardinality({ n \in 1..Len(store) : store[n].idempotency_key = k }) <= 1
    /\ \A i \in Instances : engines[i].status \in {"none", "filled", "duplicate"}


(* ---------------------------------------------------------------------- *)
(* C31: processing a tick for (symbol, venue) overwrites exactly the entry *)
(* of that key with the fields of that tick, a field the tick does not     *)
(* have being absent from the entry whatever the entry held before, and    *)
(* leaves the entry of every other (symbol, venue) as it was.              *)
(* ---------------------------------------------------------------------- *)
\* The entry is the image of the tick: its fields and nothing else
ImageOf(entry, tick) ==
    entry = [bid |-> tick.bid, ask |-> tick.ask, last |-> tick.last,
             ts |-> tick.ts, venue |-> tick.venue]

C31_TickOverwritesItsEntryOnly ==
    [][ \E s \in BookSymbols, v \in Venues :
          /\ \E tick \in BookTicks :
                tick.symbol = s /\ tick.venue = v /\ ImageOf(orderBook'[s][v], tick)
          /\ \A s2 \in BookSymbols, v2 \in Venues :
                << s2, v2 >> # << s, v >> => orderBook'[s2][v2] = orderBook[s2][v2] ]_vars

\* An entry holding a last price only, beside entries of the same venue for
\* the other symbol and of another venue for the same symbol that hold a bid
\* and an ask
C31_Witness ==
    /\ orderBook["CSR/USDT"]["lbank"] # NoState
    /\ orderBook["CSR/USDT"]["lbank"].last = 203
    /\ orderBook["CSR/USDT"]["lbank"].bid = 0
    /\ orderBook["CSR25/USDT"]["lbank"] # NoState
    /\ orderBook["CSR25/USDT"]["lbank"].bid = 200
    /\ orderBook["CSR/USDT"]["uniswap_v4"] # NoState
    /\ orderBook["CSR/USDT"]["uniswap_v4"].bid = 200
    /\ aout.requests # << >>

(* ---------------------------------------------------------------------- *)
(* C37: the timestamp of the stored state of a (symbol, venue) never       *)
(* decreases, in whatever order the ticks of that key are processed.       *)
(* ---------------------------------------------------------------------- *)
C37_StateNeverGoesBackInTime ==
    [][ \A s \in BookSymbols, v \in Venues :
          orderBook[s][v] # NoState => orderBook'[s][v].ts >= orderBook[s][v].ts ]_vars


(* ---------------------------------------------------------------------- *)
(* C32: an evaluation whose DEX quote carries an error, is marked          *)
(* validated = false or has a source that is not an on-chain Uniswap V4    *)
(* source produces no StrategyDecision: it is skipped, the stored decision *)
(* stays as it was, and the reason logged is the one of a defect the quote *)
(* has (the first one checked, when the data are complete and fresh).      *)
(* ---------------------------------------------------------------------- *)
\* The reasons evaluateMarket logs for the defects of a quote
DefectReasons(quote) ==
    { r \in {"quote_error", "invalid_or_unvalidated_quote",
              "non_real_or_invalid_uniswap_quote"} :
        \/ r = "quote_error" /\ quote.error
        \/ r = "invalid_or_unvalidated_quote" /\ ~quote.validated
        \/ r = "non_real_or_invalid_uniswap_quote" /\ ~quote.real }

FirstDefectReason(quote) ==
    IF quote.error THEN "quote_error"
    ELSE IF ~quote.validated THEN "invalid_or_unvalidated_quote"
    ELSE "non_real_or_invalid_uniswap_quote"

C32_UntrustedQuoteNeverDecides ==
    [][ (MarketEvaluated /\ state'.uniswapQuote # NoQuote /\ ~UniswapValid')
          => /\ sout'.decisions = 0
             /\ state'.decision = state.decision
             /\ sout'.reason \in {"incomplete_data", "stale_data"}
                                    \cup DefectReasons(state'.uniswapQuote)
             /\ ((LbankFresh' \/ LatokenFresh') /\ UniswapFresh')
                   => sout'.reason = FirstDefectReason(state'.uniswapQuote) ]_vars

\* A decision is stored, and the evaluation of a quote that is validated and
\* free of errors but not from an on-chain source was skipped for that cause
C32_Witness ==
    /\ state.decision # NoCalculation
    /\ state.uniswapQuote # NoQuote
    /\ ~state.uniswapQuote.real /\ state.uniswapQuote.validated /\ ~state.uniswapQuote.error
    /\ sout.reason = "non_real_or_invalid_uniswap_quote"
    /\ sout.decisions = 0


(* ---------------------------------------------------------------------- *)
(* C33: in every reachable state of the execution engine the number of     *)
(* orders in activeOrders is at most MAX_CONCURRENT_ORDERS.                *)
(* ---------------------------------------------------------------------- *)
C33_ActiveOrdersBounded ==
    Cardinality(activeOrders) <= config.MAX_CONCURRENT_ORDERS

(* ---------------------------------------------------------------------- *)
(* C34: when execute() has returned, in every EXECUTION_MODE, the          *)
(* TradeRecord it inserted is in a terminal status and is not in           *)
(* activeOrders.                                                           *)
(* ---------------------------------------------------------------------- *)
C34_ReturnedCallLeavesNothingPending ==
    (pc = "idle" /\ result # NoResult /\ result.trade_id # 0)
        => /\ result.trade_id \notin activeOrders
           /\ trades[result.trade_id].status # "pending"


(* ---------------------------------------------------------------------- *)
(* C35: a DecisionRecord is inserted with executed = false; its executed   *)
(* flag is true once the execute() call made for it has created a trade,   *)
(* and only then; no other field of a stored record ever changes.          *)
(* ---------------------------------------------------------------------- *)
\* The execute() call of the last evaluateAndExecute has returned, having
\* inserted a trade
LastDecisionCreatedTrade ==
    /\ pc = "idle"
    /\ req # NoReq /\ req.msg # 0
    /\ result # NoResult /\ result.trade_id # 0

C35_ExecutedMarksCreatedTrade ==
    /\ LastDecisionCreatedTrade => decisionRecords[Len(decisionRecords)].executed
    /\ \A i \in 1..Len(decisionRecords) :
          decisionRecords[i].executed => \E n \in 1..Len(trades) : origin[n] # 0

C35_InsertedUnexecutedThenFrozen ==
    /\ Len(decisionRecords') >= Len(decisionRecords)
    /\ \A i \in 1..Len(decisionRecords') :
          IF i <= Len(decisionRecords)
             THEN /\ [decisionRecords'[i] EXCEPT !.executed = FALSE]
                       = [decisionRecords[i] EXCEPT !.executed = FALSE]
                  /\ decisionRecords[i].executed => decisionRecords'[i].executed
             ELSE ~decisionRecords'[i].executed

C35_ExecutedFlag ==
    [] C35_ExecutedMarksCreatedTrade /\ [][C35_InsertedUnexecutedThenFrozen]_vars


(* ---------------------------------------------------------------------- *)
(* C38: in every AlignmentSuggestion computeSuggestion returns,            *)
(* suggestedSizeUsdt is a number between 0 and config.maxTradeSizeUsdt,    *)
(* and it is 0 with direction 'none' in the neutral-band and cooldown      *)
(* outcomes.                                                               *)
(* ---------------------------------------------------------------------- *)
\* The suggestion of the last call, be it made directly or by
\* computeAlignmentDecision, with the band status and cooldown it was given
Suggested ==
    IF solverOut.fn = "computeSuggestion"
    THEN [ suggestion |-> solverOut.suggestion,
           bandStatus |-> solverIn.prices.bandStatus,
           inCooldown |-> solverIn.cooldown.inCooldown ]
    ELSE [ suggestion |-> solverOut.decision.suggestion,
           bandStatus |-> solverOut.decision.prices.bandStatus,
           inCooldown |-> solverOut.decision.cooldown.inCooldown ]

C38_SuggestedSizeInRange ==
    solverOut.fn \in {"computeSuggestion", "computeAlignmentDecision"}
        => LET s == Suggested.suggestion
           IN  /\ s.suggestedSizeUsdt.k = "num"
               /\ atMost(Whole(0), s.suggestedSizeUsdt)
               /\ atMost(s.suggestedSizeUsdt, solverIn.config.maxTradeSizeUsdt)
               /\ (Suggested.bandStatus = "neutral" \/ Suggested.inCooldown)
                     => (s.suggestedSizeUsdt = Whole(0) /\ s.direction = "none")


(* ---------------------------------------------------------------------- *)
(* C36: every tick a DEX quote producer publishes on market.data is        *)
(* accepted by the strategy consumer and leaves the evaluator a usable     *)
(* DEX-side price; once the consumer has gone through such a tick while a  *)
(* CEX tick of the symbol is in the order book and the spread between the  *)
(* two exceeds the threshold, a request has been emitted.                  *)
(* ---------------------------------------------------------------------- *)
\* The price a DEX producer's message carries, and the symbol it is about
QuotedPrice(raw) == Or(raw.price, raw.effective_price_usdt)
QuotedSymbol(raw) ==
    IF raw.symbol \in {"csr/usdt", "CSR/USDT"} THEN "CSR/USDT" ELSE "CSR25/USDT"

C36_DexTicksReachTheEvaluator ==
    /\ \A n \in 1..consumed :
          feed[n].value.venue = "uniswap_v4"
              => /\ n \in accepted
                 /\ LET dex == orderBook[QuotedSymbol(feed[n].value)]["uniswap_v4"]
                    IN  dex # NoState /\ Or(dex.bid, dex.last) # 0
    /\ (consumed > 0 /\ feed[consumed].value.venue = "uniswap_v4")
          => LET raw == feed[consumed].value
                 cex == orderBook[QuotedSymbol(raw)]["lbank"]
             IN  (cex # NoState /\ Qualifies(Or(cex.ask, cex.last), QuotedPrice(raw), 50))
                     => aout.requests # << >>
=============================================================================
